---------------------------- MODULE Spec2Model ----------------------------
(***************************************************************************)
(* plarix-action: LLM cost analysis for pull requests.                     *)
(*                                                                         *)
(* The model follows the latest of the three program variants held in      *)
(* src/unnamed/part_000 (lines 1177-2034): the price resolver priceFor,    *)
(* the cost calculator computeEstimate, the measured-usage aggregator      *)
(* loadMeasuredUsage, the report composer buildReport, the configuration   *)
(* loader loadConfig, the process main, the PR comment upsertComment and   *)
(* the file listing fetchPRFiles.                                          *)
(*                                                                         *)
(* Go strings are sequences of one-character strings, so that              *)
(* strings.ToLower and strings.EqualFold are computed character by         *)
(* character (ASCII letters, digits and punctuation).  float64 values are  *)
(* exact rationals [n, d] in lowest terms: binary rounding of float64 is   *)
(* not modelled, the order of the arithmetic operations is.                *)
(***************************************************************************)
EXTENDS Integers, Sequences, FiniteSets, TLC

VARIABLES
    pc,            \* position of the running program / harness
    pricing,       \* PricingFile: the catalog loaded by findPricing
    provider,      \* priceFor argument
    model,         \* priceFor / computeEstimate argument
    priceCalls,    \* results of the priceFor calls made so far
    cfg,           \* Assumptions (Config.Assumptions)
    cfgFound,      \* second result of loadConfig
    estimate,      \* result of computeEstimate: <<>> or <<[cost, found]>>
    baseFile,      \* file named by PLARIX_MEASURE_BASE (NoPath when unset)
    headFile,      \* file named by PLARIX_MEASURE_HEAD (NoPath when unset)
    baseMeasured,  \* *MeasuredSummary: Nil or Ptr(summary)
    headMeasured,  \* *MeasuredSummary: Nil or Ptr(summary)
    signals,       \* DiffSignals
    mapOrder,      \* the iteration orders Go picks for `range` over the maps
    report,        \* result of buildReport: <<>> or <<[panic, lines]>>
    cfgFile,       \* the file at configPath (.plarix.yml)
    env,           \* what the process finds around it: environment, event, API
    effects,       \* what the process has done to the outside, in order
    exitCode,      \* exit status of the process, Running until it ends
    prComments,    \* the comments of the PR as the GitHub API holds them
    existingID,    \* findExistingComment's result, per invocation
    page,          \* fetchPRFiles: the loop variable
    all,           \* fetchPRFiles: the files appended so far
    fetched        \* fetchPRFiles: <<>> or <<[files, err]>>, what it returned

vars == <<pc, pricing, provider, model, priceCalls, cfg, cfgFound, estimate,
          baseFile, headFile, baseMeasured, headMeasured, signals, mapOrder,
          report, cfgFile, env, effects, exitCode, prComments, existingID, page, all,
          fetched>>

-----------------------------------------------------------------------------
(* Bounds of the model.                                                    *)

MaxCatalog == 2      \* longest catalog drawn for the resolver
MaxCalls == 2        \* priceFor calls made on the same arguments
MaxLines == 3        \* longest measured-usage stream drawn for the aggregator
MaxConfigLines == 3  \* longest configuration file drawn for the loader

-----------------------------------------------------------------------------
(* Strings.                                                                *)

UpperChars == <<"A","B","C","D","E","F","G","H","I","J","K","L","M",
                "N","O","P","Q","R","S","T","U","V","W","X","Y","Z">>
LowerChars == <<"a","b","c","d","e","f","g","h","i","j","k","l","m",
                "n","o","p","q","r","s","t","u","v","w","x","y","z">>

ToLowerChar(c) ==
    IF \E i \in 1..Len(UpperChars) : UpperChars[i] = c
    THEN LowerChars[CHOOSE i \in 1..Len(UpperChars) : UpperChars[i] = c]
    ELSE c

ToUpperChar(c) ==
    IF \E i \in 1..Len(LowerChars) : LowerChars[i] = c
    THEN UpperChars[CHOOSE i \in 1..Len(LowerChars) : LowerChars[i] = c]
    ELSE c

\* strings.ToLower
ToLower(s) == [i \in 1..Len(s) |-> ToLowerChar(s[i])]

\* strings.ToUpper (used to enumerate the spellings of a string)
ToUpper(s) == [i \in 1..Len(s) |-> ToUpperChar(s[i])]

\* strings.EqualFold: equality under simple case folding
EqualFold(s, t) ==
    /\ Len(s) = Len(t)
    /\ \A i \in 1..Len(s) : ToLowerChar(s[i]) = ToLowerChar(t[i])

\* strings.TrimSpace(val) == ""
IsBlank(s) == \A i \in 1..Len(s) : s[i] \in {" ", "\t"}

\* safeValue
safeValue(val, fallback) == IF IsBlank(val) THEN fallback ELSE val

s_openai == <<"o","p","e","n","a","i">>
s_OpenAI == <<"O","p","e","n","A","I">>
s_anthropic == <<"a","n","t","h","r","o","p","i","c">>
s_mistral == <<"m","i","s","t","r","a","l">>
s_gpt4o == <<"g","p","t","-","4","o">>
s_GPT4o == <<"G","P","T","-","4","o">>
s_gpt4omini == <<"g","p","t","-","4","o","-","m","i","n","i">>
s_claude3opus == <<"c","l","a","u","d","e","-","3","-","o","p","u","s">>
s_notreal == <<"g","p","t","-","X">>
s_empty == <<>>

-----------------------------------------------------------------------------
(* float64 as exact rationals.                                             *)

Abs(x) == IF x < 0 THEN -x ELSE x

RECURSIVE GCD(_, _)
GCD(a, b) == IF b = 0 THEN Abs(a) ELSE GCD(b, a % b)

Reduce(n, d, g) ==
    IF d < 0 THEN [n |-> -(n \div g), d |-> -(d \div g)]
    ELSE [n |-> n \div g, d |-> d \div g]

\* n/d in lowest terms with d > 0
Rat(n, d) == Reduce(n, d, GCD(Abs(n), Abs(d)))

FromInt(i) == [n |-> i, d |-> 1]
Zero == FromInt(0)

AddOver(a, b, g) ==
    Rat(a.n * (b.d \div g) + b.n * (a.d \div g), (a.d \div g) * b.d)

RatAdd(a, b) == AddOver(a, b, GCD(a.d, b.d))

RatNeg(a) == [n |-> -a.n, d |-> a.d]
RatSub(a, b) == RatAdd(a, RatNeg(b))

NonZero(g) == IF g = 0 THEN 1 ELSE g

MulOver(a, b, h1, h2) ==
    Rat((a.n \div h1) * (b.n \div h2), (a.d \div h2) * (b.d \div h1))

RatMul(a, b) == MulOver(a, b, NonZero(GCD(a.n, b.d)), NonZero(GCD(b.n, a.d)))

\* a / b for b # 0
RatDiv(a, b) == RatMul(a, Rat(b.d, b.n))

RatLt(a, b) == a.n * b.d < b.n * a.d
RatGt(a, b) == RatLt(b, a)

\* Go's int(f): truncation toward zero
Trunc(a) == IF a.n >= 0 THEN a.n \div a.d ELSE -((-a.n) \div a.d)

-----------------------------------------------------------------------------
(* Pricing catalog.                                                        *)

ModelPrice(p, name, inp, out) ==
    [Provider |-> p, Name |-> name, InputPerMillion |-> inp, OutputPerMillion |-> out]

\* entries of the embedded pricing table, and a duplicate of the first pair
\* in another spelling with the older prices
e_gpt4o == ModelPrice(s_openai, s_gpt4o, Rat(5, 2), Rat(10, 1))
e_gpt4omini == ModelPrice(s_openai, s_gpt4omini, Rat(3, 20), Rat(3, 5))
e_claude3opus == ModelPrice(s_anthropic, s_claude3opus, Rat(15, 1), Rat(75, 1))
e_GPT4o_dup == ModelPrice(s_OpenAI, s_GPT4o, Rat(5, 1), Rat(15, 1))

CatalogEntries == {e_gpt4o, e_gpt4omini, e_claude3opus, e_GPT4o_dup}

PricingFile(models) ==
    [LastUpdated |-> <<"2","0","2","5">>, Sources |-> <<"openai", "anthropic">>,
     Models |-> models]

EmbeddedPricing == PricingFile(<<e_gpt4o, e_gpt4omini, e_claude3opus>>)

SeqsUpTo(S, n) == UNION {[1..k -> S] : k \in 0..n}

Min(S) == CHOOSE x \in S : \A y \in S : x <= y

-----------------------------------------------------------------------------
(* Price resolver.                                                         *)

\* priceFor of the first program variant: falls back to the first entry of
\* the provider, then to the first entry of the catalog
priceFor_v1(pr, prov, mdl) ==
    LET p == ToLower(prov)
        m == ToLower(mdl)
        idx == 1..Len(pr.Models)
        exact == {i \in idx : EqualFold(pr.Models[i].Provider, p)
                              /\ EqualFold(pr.Models[i].Name, m)}
        same == {i \in idx : EqualFold(pr.Models[i].Provider, p)}
    IN IF exact # {} THEN [m |-> pr.Models[Min(exact)], ok |-> TRUE]
       ELSE IF same # {} THEN [m |-> pr.Models[Min(same)], ok |-> FALSE]
       ELSE IF Len(pr.Models) > 0 THEN [m |-> pr.Models[1], ok |-> FALSE]
       ELSE [m |-> ModelPrice(p, m, Zero, Zero), ok |-> FALSE]

\* priceFor comparing the model name byte for byte
priceFor_caseSensitive(pr, prov, mdl) ==
    LET p == ToLower(prov)
        exact == {i \in 1..Len(pr.Models) :
                     EqualFold(pr.Models[i].Provider, p) /\ pr.Models[i].Name = mdl}
    IN IF exact # {} THEN [m |-> pr.Models[Min(exact)], ok |-> TRUE]
       ELSE [m |-> ModelPrice(p, mdl, Zero, Zero), ok |-> FALSE]

\* priceFor pricing a miss at a default rate instead of zero
priceFor_defaultRate(pr, prov, mdl) ==
    LET p == ToLower(prov)
        exact == {i \in 1..Len(pr.Models) :
                     EqualFold(pr.Models[i].Provider, p)
                     /\ EqualFold(pr.Models[i].Name, mdl)}
    IN IF exact # {} THEN [m |-> pr.Models[Min(exact)], ok |-> TRUE]
       ELSE [m |-> ModelPrice(p, mdl, Rat(3, 20), Rat(3, 5)), ok |-> FALSE]

\* the entries equal to (p, mdl) under case folding
matches(pr, p, mdl) ==
    {i \in 1..Len(pr.Models) :
        EqualFold(pr.Models[i].Provider, p) /\ EqualFold(pr.Models[i].Name, mdl)}

\* the first of the entries found, else a zero-priced entry naming p and mdl
firstMatch(pr, p, mdl, exact) ==
    IF exact # {} THEN [m |-> pr.Models[Min(exact)], ok |-> TRUE]
    ELSE [m |-> ModelPrice(p, mdl, Zero, Zero), ok |-> FALSE]

\* priceFor: the first entry equal to (provider, model) under case folding,
\* else a zero-priced entry naming the lower-cased provider and the model
priceFor(pr, prov, mdl) ==
    firstMatch(pr, ToLower(prov), mdl, matches(pr, ToLower(prov), mdl))

-----------------------------------------------------------------------------
(* Values of the variables a specification does not use.                   *)

Nil == <<>>
Ptr(x) == <<x>>
NoPath == [set |-> FALSE]

DefaultAssumptions ==
    [RequestsPerDay |-> 10000, AvgInputTokens |-> 800, AvgOutputTokens |-> 400,
     Provider |-> s_openai, Model |-> s_gpt4omini]

NoSignals ==
    [BeforeModels |-> <<>>, AfterModels |-> <<>>, BeforeMax |-> <<>>,
     AfterMax |-> <<>>, BeforeRetry |-> <<>>, AfterRetry |-> <<>>]

IdleResolver == provider = <<>> /\ model = <<>> /\ priceCalls = <<>>
IdleEstimate == cfg = DefaultAssumptions /\ cfgFound = FALSE /\ estimate = <<>>
IdleMeasured ==
    /\ baseFile = NoPath /\ headFile = NoPath
    /\ baseMeasured = Nil /\ headMeasured = Nil
IdleReport == signals = NoSignals /\ mapOrder = <<>> /\ report = <<>>
IdleApi ==
    prComments = <<>> /\ existingID = <<>> /\ page = 0 /\ all = <<>> /\ fetched = <<>>
IdleProcess ==
    cfgFile = NoPath /\ env = <<>> /\ effects = <<>> /\ exitCode = -1 /\ IdleApi

resolverVars == <<provider, model, priceCalls>>
estimateVars == <<cfg, cfgFound, estimate>>
measuredVars == <<baseFile, headFile, baseMeasured, headMeasured>>
reportVars == <<signals, mapOrder, report>>
apiVars == <<prComments, existingID, page, all, fetched>>
processVars == <<cfgFile, env, effects, exitCode, apiVars>>

-----------------------------------------------------------------------------
(* SpecPrice: priceFor called on every catalog of up to MaxCatalog entries *)
(* and every request, MaxCalls times on the same arguments.                *)

RequestProviders == {s_openai, s_OpenAI, s_anthropic, s_mistral}
RequestModels == {s_gpt4o, s_GPT4o, s_gpt4omini, s_notreal}

InitPrice ==
    /\ pc = "resolve"
    /\ pricing \in {PricingFile(ms) : ms \in SeqsUpTo(CatalogEntries, MaxCatalog)}
    /\ provider \in RequestProviders
    /\ model \in RequestModels
    /\ priceCalls = <<>>
    /\ IdleEstimate /\ IdleMeasured /\ IdleReport /\ IdleProcess

CallPriceFor ==
    /\ pc = "resolve"
    /\ Len(priceCalls) < MaxCalls
    /\ priceCalls' = Append(priceCalls, priceFor(pricing, provider, model))
    /\ UNCHANGED <<processVars, pc, pricing, provider, model, estimateVars, measuredVars, reportVars>>

NextPrice == CallPriceFor

SpecPrice == InitPrice /\ [][NextPrice]_vars

\* the catalog entries equal to the request under case folding of both fields
ExactEntries ==
    {i \in 1..Len(pricing.Models) :
        /\ EqualFold(pricing.Models[i].Provider, provider)
        /\ EqualFold(pricing.Models[i].Name, model)}

\* the catalog entries of the requested provider
ProviderEntries ==
    {i \in 1..Len(pricing.Models) : EqualFold(pricing.Models[i].Provider, provider)}

IsPlaceholder(r) ==
    /\ r.ok = FALSE
    /\ r.m.InputPerMillion = Zero
    /\ r.m.OutputPerMillion = Zero
    /\ r.m.Provider = ToLower(provider)
    /\ r.m.Name = model

\* C2 as stated: a model missing from the catalog whose provider has entries
\* resolves to the first entry of that provider, exactMatch = false.
C2_FirstOfProvider ==
    \A i \in 1..Len(priceCalls) :
        (ExactEntries = {} /\ ProviderEntries # {}) =>
            /\ priceCalls[i].ok = FALSE
            /\ priceCalls[i].m = pricing.Models[Min(ProviderEntries)]

\* C2 (amended): a model missing from the catalog whose provider has entries
\* resolves to a zero-priced entry naming the lower-cased provider and the
\* requested model, exactMatch = false; no same-provider rate is substituted.
C2_KnownProviderPlaceholder ==
    \A i \in 1..Len(priceCalls) :
        (ExactEntries = {} /\ ProviderEntries # {}) => IsPlaceholder(priceCalls[i])

C2_Witness ==
    /\ Len(priceCalls) > 0
    /\ ExactEntries = {} /\ ProviderEntries # {}
    /\ model = s_notreal
    /\ pricing.Models[Min(ProviderEntries)].InputPerMillion # Zero

\* C3 as stated: with no entry of the provider and a non-empty catalog the
\* resolver returns the first entry of the catalog, exactMatch = false.
C3_FirstOfCatalog ==
    \A i \in 1..Len(priceCalls) :
        (ProviderEntries = {} /\ Len(pricing.Models) > 0) =>
            /\ priceCalls[i].ok = FALSE
            /\ priceCalls[i].m = pricing.Models[1]

\* C3 (amended): with no entry of the provider and a non-empty catalog the
\* resolver returns a zero-priced entry naming the lower-cased provider and
\* the requested model, exactMatch = false; no catalog entry is substituted.
C3_UnknownProviderPlaceholder ==
    \A i \in 1..Len(priceCalls) :
        (ProviderEntries = {} /\ Len(pricing.Models) > 0) => IsPlaceholder(priceCalls[i])

C3_Witness ==
    /\ Len(priceCalls) > 0
    /\ provider = s_mistral
    /\ ProviderEntries = {} /\ Len(pricing.Models) > 0

\* the spellings of a string: as given, lower case, upper case, first letter
\* switched
Spellings(s) ==
    {s, ToLower(s), ToUpper(s),
     [i \in 1..Len(s) |-> IF i = 1
                          THEN (IF ToLowerChar(s[i]) = s[i] THEN ToUpperChar(s[i])
                                                           ELSE ToLowerChar(s[i]))
                          ELSE s[i]]}

\* C4: exactMatch is true exactly when some entry equals the requested
\* provider and model under case folding; the entry returned is then the
\* first such entry in catalog order, duplicates included, and every
\* spelling of the request resolves to the same result.
C4_ExactMatch ==
    \A i \in 1..Len(priceCalls) :
        /\ priceCalls[i].ok = (ExactEntries # {})
        /\ ExactEntries # {} =>
              /\ priceCalls[i].m = pricing.Models[Min(ExactEntries)]
              /\ \A p \in Spellings(provider), m \in Spellings(model) :
                    priceFor(pricing, p, m) = priceCalls[i]

C4_Witness ==
    /\ Len(priceCalls) > 0
    /\ Cardinality(ExactEntries) = 2
    /\ provider = s_OpenAI /\ model = s_gpt4o
    /\ pricing.Models[1] = e_GPT4o_dup /\ pricing.Models[2] = e_gpt4o
    /\ priceCalls[1].ok /\ priceCalls[1].m = e_GPT4o_dup

WellFormedPrice(r) ==
    /\ DOMAIN r = {"m", "ok"}
    /\ r.ok \in BOOLEAN
    /\ DOMAIN r.m = {"Provider", "Name", "InputPerMillion", "OutputPerMillion"}
    /\ r.m.InputPerMillion.d > 0 /\ r.m.OutputPerMillion.d > 0

-----------------------------------------------------------------------------
(* Cost calculator.                                                        *)

Million == FromInt(1000000)
DaysPerMonth == FromInt(30)

costPair(perRequest, monthly) == [PerRequest |-> perRequest, Monthly |-> monthly]

\* the cost of one call: (in * input price + out * output price) / 1e6
callCost(inTokens, outTokens, price) ==
    RatDiv(RatAdd(RatMul(FromInt(inTokens), price.InputPerMillion),
                  RatMul(FromInt(outTokens), price.OutputPerMillion)),
           Million)

\* monthly = perRequest * requestsPerDay * 30
estimateOf(perRequest, requestsPerDay, found) ==
    [cost |-> costPair(perRequest,
                       RatMul(RatMul(perRequest, FromInt(requestsPerDay)), DaysPerMonth)),
     found |-> found]

\* the value rounded to 4 decimals
RoundTo4(n, d) == Rat((2 * n * 10000 + d) \div (2 * d), 10000)
RoundRatTo4(a) == RoundTo4(a.n, a.d)

estimateAt_roundedFirst(a, r) ==
    estimateOf(RoundRatTo4(callCost(a.AvgInputTokens, a.AvgOutputTokens, r.m)),
               a.RequestsPerDay, r.ok)

\* computeEstimate rounding the per-request cost to 4 decimals (the precision
\* it is displayed with) before the monthly cost is derived from it
computeEstimate_roundedFirst(a, pr, mdl) ==
    estimateAt_roundedFirst(a, priceFor(pr, a.Provider, mdl))

estimateAt(a, r) ==
    estimateOf(callCost(a.AvgInputTokens, a.AvgOutputTokens, r.m), a.RequestsPerDay, r.ok)

computeEstimate(a, pr, mdl) == estimateAt(a, priceFor(pr, a.Provider, mdl))

-----------------------------------------------------------------------------
(* SpecEstimate: computeEstimate on every drawn assumption set and model.  *)

EstimateRequests == {10000, 1, 0, -5}
EstimateInputTokens == {800, 0, 1500}
EstimateOutputTokens == {400, 0}
EstimateProviders == {s_openai, s_anthropic}
EstimateModels == {s_gpt4omini, s_gpt4o, s_claude3opus, s_notreal}

InitEstimate ==
    /\ pc = "estimate"
    /\ pricing \in {EmbeddedPricing, PricingFile(<<e_GPT4o_dup>>)}
    /\ cfg \in [RequestsPerDay : EstimateRequests, AvgInputTokens : EstimateInputTokens,
                AvgOutputTokens : EstimateOutputTokens, Provider : EstimateProviders,
                Model : {s_gpt4omini}]
    /\ cfgFound = TRUE
    /\ model \in EstimateModels
    /\ estimate = <<>>
    /\ provider = <<>> /\ priceCalls = <<>>
    /\ IdleMeasured /\ IdleReport /\ IdleProcess

CallComputeEstimate ==
    /\ pc = "estimate"
    /\ estimate = <<>>
    /\ estimate' = <<computeEstimate(cfg, pricing, model)>>
    /\ UNCHANGED <<processVars, pc, pricing, provider, model, priceCalls, cfg, cfgFound,
                   measuredVars, reportVars>>

NextEstimate == CallComputeEstimate

SpecEstimate == InitEstimate /\ [][NextEstimate]_vars

\* C6: perRequestCost = (avgInputTokens * input price + avgOutputTokens *
\* output price) / 1,000,000 for the resolved entry and monthlyCost =
\* perRequestCost * requestsPerDay * 30 with no rounding in between, for
\* non-negative token counts and prices; 800/400 tokens at 0.15/0.60 and
\* 10000 requests a day give 0.00036 and 108.
C6_EstimateFormula ==
    estimate # <<>> =>
        LET e == estimate[1].cost
            price == priceFor(pricing, cfg.Provider, model).m
            pin == price.InputPerMillion
            pout == price.OutputPerMillion
        IN (cfg.AvgInputTokens >= 0 /\ cfg.AvgOutputTokens >= 0
            /\ pin.n >= 0 /\ pout.n >= 0) =>
              /\ e.PerRequest = Rat(cfg.AvgInputTokens * pin.n * pout.d
                                      + cfg.AvgOutputTokens * pout.n * pin.d,
                                    pin.d * pout.d * 1000000)
              /\ e.Monthly = Rat(e.PerRequest.n * cfg.RequestsPerDay * 30, e.PerRequest.d)
              /\ (cfg = DefaultAssumptions /\ price = e_gpt4omini) =>
                    e.PerRequest = Rat(36, 100000) /\ e.Monthly = FromInt(108)

C6_Witness ==
    /\ estimate # <<>>
    /\ cfg = DefaultAssumptions /\ model = s_gpt4omini /\ pricing = EmbeddedPricing
    /\ estimate[1].found
    /\ estimate[1].cost.Monthly = FromInt(108)

-----------------------------------------------------------------------------
(* Measured-usage aggregator.                                              *)

\* bufio.MaxScanTokenSize: a line that does not fit the buffer of the
\* bufio.Scanner ends the scan (Scan returns false, the error is not read)
MaxScanTokenSize == 65536

UsageFields ==
    {"provider", "model", "input_tokens", "output_tokens",
     "cached_input_tokens", "timestamp"}

\* the zero value of a MeasuredUsage field
ZeroField(f) == IF f \in {"provider", "model", "timestamp"} THEN <<>> ELSE 0

\* A line of the file, by what json.Unmarshal makes of it:
\*   "blank"    only white space
\*   "invalid"  not JSON
\*   "mismatch" JSON that does not fit the struct (an array, a string where
\*              a number is expected)
\*   "null"     the JSON null, which Unmarshal accepts and leaves u untouched
\*   "object"   a JSON object holding `fields`; a key it lacks keeps the zero
\*              value
Line(json, size, fields) == [json |-> json, size |-> size, fields |-> fields]

NoFields == [f \in {} |-> 0]

Usage(prov, mdl, inTokens, outTokens) ==
    [f \in {"provider", "model", "input_tokens", "output_tokens"} |->
        CASE f = "provider" -> prov
          [] f = "model" -> mdl
          [] f = "input_tokens" -> inTokens
          [] f = "output_tokens" -> outTokens]

WithField(fields, f, v) ==
    [g \in DOMAIN fields \cup {f} |-> IF g = f THEN v ELSE fields[g]]

l_gpt4o == Line("object", 80, Usage(s_openai, s_gpt4o, 1000, 500))
l_mini ==
    Line("object", 120,
         WithField(WithField(Usage(s_openai, s_gpt4omini, 2000, 800),
                             "cached_input_tokens", 500),
                   "timestamp", <<"t","1">>))
\* the record of l_mini with another cached count and a timestamp string
\* of 70,000 characters, held as one token
l_mini_stamped ==
    Line("object", 70120,
         WithField(WithField(Usage(s_openai, s_gpt4omini, 2000, 800),
                             "cached_input_tokens", 0),
                   "timestamp", <<"T70000">>))
l_unknown == Line("object", 80, Usage(s_OpenAI, s_notreal, 100, 100))
l_negative == Line("object", 80, Usage(s_openai, s_GPT4o, -1000, 0))
l_partial == Line("object", 20, [f \in {"model"} |-> s_claude3opus])
l_null == Line("null", 4, NoFields)
l_blank == Line("blank", 2, NoFields)
l_invalid == Line("invalid", 30, NoFields)
l_mismatch == Line("mismatch", 40, NoFields)
l_long == Line("object", 70000, Usage(s_anthropic, s_claude3opus, 10, 10))

UsageLines ==
    {l_gpt4o, l_mini, l_mini_stamped, l_unknown, l_negative, l_partial, l_null,
     l_blank, l_invalid, l_mismatch, l_long}

File(exists, lines) == [set |-> TRUE, exists |-> exists, lines |-> lines]

\* json.Unmarshal([]byte(line), &u): err == nil, and u
UnmarshalOk(line) == line.json \in {"object", "null"}

UnmarshalUsage(line) ==
    [f \in UsageFields |->
        IF line.json = "object" /\ f \in DOMAIN line.fields
        THEN line.fields[f] ELSE ZeroField(f)]

MeasuredSummary(inTokens, outTokens, cost, calls, models) ==
    [TotalInputTokens |-> inTokens, TotalOutputTokens |-> outTokens,
     TotalCost |-> cost, CallCount |-> calls, Models |-> models]

EmptySummary == MeasuredSummary(0, 0, Zero, 0, [m \in {} |-> 0])

\* summary.Models[u.Model]++
Increment(models, k) ==
    [m \in DOMAIN models \cup {k} |->
        IF m = k THEN (IF k \in DOMAIN models THEN models[k] + 1 ELSE 1)
        ELSE models[m]]

\* the loop body with the output tokens added from the input field
addUsage_copyPaste(summary, u, pr) ==
    MeasuredSummary(summary.TotalInputTokens + u.input_tokens,
                    summary.TotalOutputTokens + u.input_tokens,
                    RatAdd(summary.TotalCost,
                           callCost(u.input_tokens, u.output_tokens,
                                    priceFor(pr, u.provider, u.model).m)),
                    summary.CallCount + 1,
                    Increment(summary.Models, u.model))

\* the loop body of loadMeasuredUsage for a parsed record
addUsage(summary, u, pr) ==
    MeasuredSummary(summary.TotalInputTokens + u.input_tokens,
                    summary.TotalOutputTokens + u.output_tokens,
                    RatAdd(summary.TotalCost,
                           callCost(u.input_tokens, u.output_tokens,
                                    priceFor(pr, u.provider, u.model).m)),
                    summary.CallCount + 1,
                    Increment(summary.Models, u.model))

\* the scanner loop from line i on
RECURSIVE scanLines(_, _, _, _)
scanLines(lines, i, summary, pr) ==
    IF i > Len(lines) THEN summary
    ELSE IF lines[i].size >= MaxScanTokenSize THEN summary
    ELSE IF lines[i].json = "blank" THEN scanLines(lines, i + 1, summary, pr)
    ELSE IF ~UnmarshalOk(lines[i]) THEN scanLines(lines, i + 1, summary, pr)
    ELSE scanLines(lines, i + 1, addUsage(summary, UnmarshalUsage(lines[i]), pr), pr)

\* nil for a summary of no call
summaryOrNil(summary) == IF summary.CallCount = 0 THEN Nil ELSE Ptr(summary)

loadMeasuredUsage(file, pr) ==
    IF ~file.exists THEN Nil
    ELSE summaryOrNil(scanLines(file.lines, 1, EmptySummary, pr))

-----------------------------------------------------------------------------
(* SpecMeasured: loadMeasuredUsage on every stream of up to MaxLines       *)
(* lines.                                                                  *)

InitMeasured ==
    /\ pc = "measure"
    /\ pricing = EmbeddedPricing
    /\ baseFile \in {File(FALSE, <<>>)}
                      \cup {File(TRUE, ls) : ls \in SeqsUpTo(UsageLines, MaxLines)}
    /\ headFile = NoPath
    /\ baseMeasured = Nil /\ headMeasured = Nil
    /\ IdleResolver /\ IdleEstimate /\ IdleReport /\ IdleProcess

CallLoadMeasuredUsage ==
    /\ pc = "measure"
    /\ baseMeasured' = loadMeasuredUsage(baseFile, pricing)
    /\ pc' = "measured"
    /\ UNCHANGED <<processVars, pricing, resolverVars, estimateVars, baseFile, headFile,
                   headMeasured, reportVars>>

NextMeasured == CallLoadMeasuredUsage

SpecMeasured == InitMeasured /\ [][NextMeasured]_vars

\* the lines of the stream that hold a well-formed record
WellFormedLines(file) ==
    {i \in 1..Len(file.lines) : file.lines[i].json \in {"object", "null"}}

\* C7: an empty stream and a stream of only blank or malformed lines
\* aggregate to absent; a stream with a well-formed line aggregates to a
\* summary whose callCount is the number of well-formed lines of the whole
\* stream, whatever lines precede them.
C7_CountsWellFormedLines ==
    (pc = "measured" /\ baseFile.exists) =>
        LET wf == WellFormedLines(baseFile)
        IN /\ wf = {} => baseMeasured = Nil
           /\ wf # {} => /\ baseMeasured # Nil
                         /\ baseMeasured[1].CallCount = Cardinality(wf)

\* the lines the scanner reached and parsed
CountedLines(file) ==
    {i \in 1..Len(file.lines) :
        /\ \A j \in 1..i : file.lines[j].size < MaxScanTokenSize
        /\ file.lines[i].json \in {"object", "null"}}

FieldOf(line, f) ==
    IF f \in DOMAIN line.fields THEN line.fields[f] ELSE ZeroField(f)

RECURSIVE IntSum(_, _)
IntSum(f, S) ==
    IF S = {} THEN 0
    ELSE LET x == CHOOSE y \in S : TRUE IN f[x] + IntSum(f, S \ {x})

RECURSIVE RatSum(_, _)
RatSum(f, S) ==
    IF S = {} THEN Zero
    ELSE LET x == CHOOSE y \in S : TRUE IN RatAdd(f[x], RatSum(f, S \ {x}))

\* C8: in a returned summary the token totals are the sums over the counted
\* records, totalCost is the sum of the records' costs, each at the price
\* resolved for the record's own provider and model, and modelCallCounts[m]
\* is the number of counted records of model m, the counts adding up to
\* callCount.
C8_SummaryTotals ==
    (pc = "measured" /\ baseMeasured # Nil) =>
        LET s == baseMeasured[1]
            ls == baseFile.lines
            counted == CountedLines(baseFile)
            cost == [i \in counted |->
                        LET price == priceFor(pricing, FieldOf(ls[i], "provider"),
                                              FieldOf(ls[i], "model")).m
                        IN RatDiv(RatAdd(RatMul(FromInt(FieldOf(ls[i], "input_tokens")),
                                                price.InputPerMillion),
                                         RatMul(FromInt(FieldOf(ls[i], "output_tokens")),
                                                price.OutputPerMillion)),
                                  FromInt(1000000))]
        IN /\ s.CallCount = Cardinality(counted)
           /\ s.TotalInputTokens =
                 IntSum([i \in counted |-> FieldOf(ls[i], "input_tokens")], counted)
           /\ s.TotalOutputTokens =
                 IntSum([i \in counted |-> FieldOf(ls[i], "output_tokens")], counted)
           /\ s.TotalCost = RatSum(cost, counted)
           /\ DOMAIN s.Models = {FieldOf(ls[i], "model") : i \in counted}
           /\ \A m \in DOMAIN s.Models :
                 s.Models[m] = Cardinality({i \in counted : FieldOf(ls[i], "model") = m})
           /\ IntSum(s.Models, DOMAIN s.Models) = s.CallCount

C8_Witness ==
    /\ pc = "measured" /\ baseMeasured # Nil
    /\ Len(baseFile.lines) = 3
    /\ baseFile.lines[1] = l_gpt4o
    /\ baseFile.lines[2] = l_invalid
    /\ baseFile.lines[3] = l_unknown
    /\ baseMeasured[1].CallCount = 2
    /\ baseMeasured[1].TotalInputTokens = 1100
    /\ baseMeasured[1].TotalCost = Rat(75, 10000)

\* C12: every summary loadMeasuredUsage returns has totalInputTokens >= 0,
\* totalOutputTokens >= 0, totalCost >= 0 and callCount >= 1.
C12_NonNegativeSummary ==
    (pc = "measured" /\ baseMeasured # Nil) =>
        /\ baseMeasured[1].TotalInputTokens >= 0
        /\ baseMeasured[1].TotalOutputTokens >= 0
        /\ ~RatLt(baseMeasured[1].TotalCost, Zero)
        /\ baseMeasured[1].CallCount >= 1

\* the fields of a record other than cachedInputTokens and timestamp
CoreFields == {"provider", "model", "input_tokens", "output_tokens"}

\* two lines that differ at most in the values of cachedInputTokens and
\* timestamp
SameButCachedAndTimestamp(l1, l2) ==
    /\ l1.json = l2.json
    /\ \A f \in CoreFields : FieldOf(l1, f) = FieldOf(l2, f)

\* the streams that differ from the stream of the file only in these values
StreamVariants(file) ==
    {g \in [1..Len(file.lines) -> UsageLines] :
        \A i \in 1..Len(file.lines) : SameButCachedAndTimestamp(file.lines[i], g[i])}

\* C16: two streams that differ only in the cachedInputTokens and timestamp
\* values of their records aggregate to the same summary.
C16_CachedIgnored ==
    (pc = "measured" /\ baseFile.exists) =>
        \A g \in StreamVariants(baseFile) :
            loadMeasuredUsage(File(TRUE, g), pricing) = baseMeasured


-----------------------------------------------------------------------------
(* Report composer.  A report is the sequence of the lines written to the  *)
(* strings.Builder, each a record [kind, v]; a panic raised while          *)
(* rendering is the result [panic |-> TRUE] with the lines written so far. *)

commentMarker == "<!-- plarix-action -->"
DataSourceMeasured == "MEASURED"
DataSourceConfiguredEstimate == "CONFIGURED ESTIMATE"
DataSourceHeuristicOnly == "HEURISTIC ONLY"

\* the placeholder of an empty side, one character (an em dash)
Placeholder == <<"EMDASH">>

L(kind, v) == [kind |-> kind, v |-> v]
Done(lines) == [panic |-> FALSE, lines |-> lines]
Panic(lines) == [panic |-> TRUE, lines |-> lines]

reportInput(found, a, pr, s, base, head) ==
    [ConfigFound |-> found, Config |-> a, Pricing |-> pr, Signals |-> s,
     BaseMeasured |-> base, HeadMeasured |-> head]

RoundHalfEven(n, d, q) ==
    IF 2 * (n - q * d) < d THEN q
    ELSE IF 2 * (n - q * d) > d THEN q + 1
    ELSE IF q % 2 = 0 THEN q ELSE q + 1

RoundRat(a) == RoundHalfEven(a.n, a.d, a.n \div a.d)

\* fmt %.<prec>f: the value in units of 10^-prec, rounded half to even
FormatFloat(a, prec) ==
    [units |-> RoundRat(RatMul(a, FromInt(10 ^ prec))), prec |-> prec]

\* formatInt: one decimal and "M" from a million, one decimal and "K" from
\* a thousand, the number itself below
formatInt(n) ==
    IF n >= 1000000 THEN [num |-> FormatFloat(Rat(n, 1000000), 1), unit |-> "M"]
    ELSE IF n >= 1000 THEN [num |-> FormatFloat(Rat(n, 1000), 1), unit |-> "K"]
    ELSE [num |-> FormatFloat(FromInt(n), 0), unit |-> ""]

Digits == <<"0","1","2","3","4","5","6","7","8","9">>

\* strconv.Itoa
RECURSIVE Itoa(_)
Itoa(n) ==
    IF n < 0 THEN <<"-">> \o Itoa(-n)
    ELSE IF n < 10 THEN <<Digits[n + 1]>>
    ELSE Itoa(n \div 10) \o <<Digits[(n % 10) + 1]>>

\* strings.Join
RECURSIVE Join(_, _)
Join(parts, sep) ==
    IF Len(parts) = 0 THEN <<>>
    ELSE IF Len(parts) = 1 THEN parts[1]
    ELSE parts[1] \o sep \o Join(Tail(parts), sep)

CommaSpace == <<",", " ">>

\* append v unless seen
appendNew(out, v) ==
    IF \E i \in 1..Len(out) : out[i] = v THEN out ELSE Append(out, v)

RECURSIVE uniqueStrings(_)
uniqueStrings(in) ==
    IF Len(in) = 0 THEN <<>>
    ELSE appendNew(uniqueStrings(SubSeq(in, 1, Len(in) - 1)), in[Len(in)])

RECURSIVE uniqueInts(_)
uniqueInts(in) ==
    IF Len(in) = 0 THEN <<>>
    ELSE appendNew(uniqueInts(SubSeq(in, 1, Len(in) - 1)), in[Len(in)])

\* listOrPlaceholder without the placeholder
listOrPlaceholder_noPlaceholder(values) == Join(uniqueStrings(values), CommaSpace)

listOrPlaceholder(values) ==
    IF Len(values) = 0 THEN Placeholder
    ELSE Join(uniqueStrings(values), CommaSpace)

itoaAll(u) == [i \in 1..Len(u) |-> Itoa(u[i])]

intsOrDash(values) ==
    IF Len(values) = 0 THEN Placeholder
    ELSE Join(itoaAll(uniqueInts(values)), CommaSpace)

\* firstOrDefault with the list left aside
firstOrDefault_fallbackOnly(list, fallback) == fallback


firstOrDefault(list, fallback) == IF Len(list) = 0 THEN fallback ELSE list[1]

\* hasAnySignals counting the model lists only
hasAnySignals_modelsOnly(s) == Len(s.BeforeModels) + Len(s.AfterModels) > 0

hasAnySignals(s) ==
    Len(s.BeforeModels) + Len(s.AfterModels) + Len(s.BeforeMax) + Len(s.AfterMax)
        + Len(s.BeforeRetry) + Len(s.AfterRetry) > 0

writeDiffSignals(s) ==
    <<L("signals_title", "Observed changes (diff-based heuristics):")>>
    \o (IF Len(s.BeforeModels) > 0 \/ Len(s.AfterModels) > 0
        THEN <<L("signal", [name |-> "Models",
                            before |-> listOrPlaceholder(s.BeforeModels),
                            after |-> listOrPlaceholder(s.AfterModels)])>>
        ELSE <<>>)
    \o (IF Len(s.BeforeMax) > 0 \/ Len(s.AfterMax) > 0
        THEN <<L("signal", [name |-> "max_tokens",
                            before |-> intsOrDash(s.BeforeMax),
                            after |-> intsOrDash(s.AfterMax)])>>
        ELSE <<>>)
    \o (IF Len(s.BeforeRetry) > 0 \/ Len(s.AfterRetry) > 0
        THEN <<L("signal", [name |-> "retries",
                            before |-> intsOrDash(s.BeforeRetry),
                            after |-> intsOrDash(s.AfterRetry)])>>
        ELSE <<>>)
    \o <<L("blank", "")>>

barWidth == 22

atLeastOne(filled, value) == IF filled < 1 /\ RatGt(value, Zero) THEN 1 ELSE filled
atMostWidth(filled) == IF filled > barWidth THEN barWidth ELSE filled

\* strings.Repeat(filled) + strings.Repeat(width - filled): a negative count
\* panics
repeatBoth(filled) ==
    [panic |-> filled < 0, filled |-> filled, empty |-> barWidth - filled]

\* the mutant of bar that rounds to the nearest count
bar_rounded(value, max) ==
    repeatBoth(atMostWidth(atLeastOne(
        RoundRat(RatMul(RatDiv(value, max), FromInt(barWidth))), value)))

\* bar: the filled count, and the panic of strings.Repeat on a negative
\* count
bar(value, max) ==
    repeatBoth(atMostWidth(atLeastOne(
        Trunc(RatMul(RatDiv(value, max), FromInt(barWidth))), value)))

barLine(side, b, cost) ==
    L("bar", [side |-> side, filled |-> b.filled, empty |-> b.empty, cost |-> cost])

barLines(b1, b2, cost1, cost2) ==
    IF b1.panic THEN Panic(<<L("fence", "FENCE")>>)
    ELSE IF b2.panic THEN Panic(<<L("fence", "FENCE"), barLine("Before", b1, cost1)>>)
    ELSE Done(<<L("fence", "FENCE"), barLine("Before", b1, cost1),
                barLine("After", b2, cost2), L("fence", "FENCE")>>)

\* the two lines of the trend bar, or the panic of the first bar that fails
trendBars(before, after, max, prec) ==
    barLines(bar(before, max), bar(after, max),
             FormatFloat(before, prec), FormatFloat(after, prec))

oneIfZero(m) == IF m = Zero THEN FromInt(1) ELSE m

\* the scale of the trend bar: the larger value, 1 when that is 0
barScale(before, after) == oneIfZero(IF RatGt(after, before) THEN after ELSE before)

\* mergeModelCounts(a, b): the keys of a in the order the range over a
\* yields them, then the unseen keys of b in the order of the range over b
mergeModelCounts(orderA, orderB) ==
    orderA \o SelectSeq(orderB, LAMBDA m : ~\E i \in 1..Len(orderA) : orderA[i] = m)

measuredRow(side, s) ==
    L("row", [side |-> side, calls |-> s.CallCount,
              input |-> formatInt(s.TotalInputTokens),
              output |-> formatInt(s.TotalOutputTokens),
              cost |-> FormatFloat(s.TotalCost, 4)])

signalsSection(show, s) ==
    IF show THEN <<L("rule", "---")>> \o writeDiffSignals(s) ELSE <<>>

deltaLine(delta, baseCost) ==
    L("delta", [sign |-> IF RatLt(delta, Zero) THEN "" ELSE "+",
                delta |-> FormatFloat(delta, 4),
                percent |-> FormatFloat(IF RatGt(baseCost, Zero)
                                        THEN RatMul(RatDiv(delta, baseCost), FromInt(100))
                                        ELSE Zero, 1)])

modelsLine(models) ==
    IF Len(models) > 0 THEN <<L("models", Join(models, CommaSpace))>> ELSE <<>>

compareLines(head, bars, models, tail) ==
    IF bars.panic THEN Panic(head \o bars.lines)
    ELSE Done(head \o bars.lines \o models \o tail)

\* both summaries present: table, delta, trend bar, models used
compareReport(base, hd, order, tail) ==
    compareLines(<<L("section", DataSourceMeasured), L("table_header", "compare"),
                   measuredRow("Before", base), measuredRow("After", hd),
                   deltaLine(RatSub(hd.TotalCost, base.TotalCost), base.TotalCost)>>,
                 trendBars(base.TotalCost, hd.TotalCost,
                           barScale(base.TotalCost, hd.TotalCost), 4),
                 modelsLine(mergeModelCounts(order.base, order.head)),
                 tail)

\* the single-sided report with the trend bar of the comparison
singleReport_withBar(s, only, set, models, tail) ==
    Done(<<L("section", DataSourceMeasured), L("table_header", "single"),
           measuredRow("", s)>>
         \o trendBars(s.TotalCost, s.TotalCost, barScale(s.TotalCost, s.TotalCost), 4).lines
         \o models
         \o <<L("note", [only |-> only, set |-> set])>>
         \o tail)

\* one summary present: its row, the models of the head side, the note
singleReport(s, only, set, models, tail) ==
    Done(<<L("section", DataSourceMeasured), L("table_header", "single"),
           measuredRow("", s)>>
         \o models
         \o <<L("note", [only |-> only, set |-> set])>>
         \o tail)

buildMeasuredReport(in, order) ==
    IF in.BaseMeasured # Nil /\ in.HeadMeasured # Nil
    THEN compareReport(in.BaseMeasured[1], in.HeadMeasured[1], order,
                       signalsSection(hasAnySignals(in.Signals), in.Signals))
    ELSE IF in.HeadMeasured # Nil
    THEN singleReport(in.HeadMeasured[1], "HEAD", "PLARIX_MEASURE_BASE",
                      modelsLine(order.head),
                      signalsSection(hasAnySignals(in.Signals), in.Signals))
    ELSE IF in.BaseMeasured # Nil
    THEN singleReport(in.BaseMeasured[1], "BASE", "PLARIX_MEASURE_HEAD", <<>>,
                      signalsSection(hasAnySignals(in.Signals), in.Signals))
    ELSE Done(<<L("section", DataSourceMeasured)>>
              \o signalsSection(hasAnySignals(in.Signals), in.Signals))

estimateRow(side, mdl, cost) ==
    L("row", [side |-> side, model |-> mdl,
              perRequest |-> FormatFloat(cost.PerRequest, 4),
              monthly |-> FormatFloat(cost.Monthly, 2)])

notFoundNote(beforeFound, afterFound) ==
    IF ~beforeFound \/ ~afterFound
    THEN <<L("pricing_not_found",
             "Pricing not found for one or more models; costs may be $0.00.")>>
    ELSE <<>>

estimateLines(head, bars, notFound, tail) ==
    IF bars.panic THEN Panic(head \o bars.lines)
    ELSE Done(head \o bars.lines \o notFound
              \o <<L("estimate_warning",
                     "These are estimates based on configured assumptions, not actual usage.")>>
              \o tail)

estimateReport(a, beforeModel, afterModel, before, after, tail) ==
    estimateLines(<<L("section", DataSourceConfiguredEstimate),
                    L("assumptions", a),
                    L("formula", "cost = (input_tokens x input_price + output_tokens x output_price) / 1M x requests/day x 30"),
                    L("table_header", "estimate"),
                    estimateRow("Before", beforeModel, before.cost),
                    estimateRow("After", afterModel, after.cost)>>,
                  trendBars(before.cost.Monthly, after.cost.Monthly,
                            barScale(before.cost.Monthly, after.cost.Monthly), 2),
                  notFoundNote(before.found, after.found),
                  tail)

buildConfiguredEstimateReport(in, hasSignals) ==
    estimateReport(in.Config,
                   firstOrDefault(in.Signals.BeforeModels, in.Config.Model),
                   firstOrDefault(in.Signals.AfterModels, in.Config.Model),
                   computeEstimate(in.Config, in.Pricing,
                                   firstOrDefault(in.Signals.BeforeModels, in.Config.Model)),
                   computeEstimate(in.Config, in.Pricing,
                                   firstOrDefault(in.Signals.AfterModels, in.Config.Model)),
                   signalsSection(hasSignals, in.Signals))

buildHeuristicOnlyReport(in, hasSignals) ==
    Done(<<L("section", DataSourceHeuristicOnly),
           L("text", "No .plarix.yml config and no measured token logs found."),
           L("text", "Without configuration or measurements, we cannot estimate costs reliably.")>>
         \o (IF hasSignals
             THEN <<L("rule", "---"), L("signals_heading", "Detected PR Signals (diff-based heuristics)")>>
                  \o writeDiffSignals(in.Signals)
             ELSE <<L("no_changes", "No LLM-cost-relevant changes detected in this PR.")>>)
         \o <<L("rule", "---"),
              L("howto", "How to Enable Real Reporting"),
              L("howto", "Option 1: Configured Estimate: create .plarix.yml"),
              L("howto", "Option 2: Measured Mode: set PLARIX_MEASURE_BASE, PLARIX_MEASURE_HEAD"),
              L("howto", "See plarix-action README")>>)

\* the data-source label with the configuration looked at first
dataSource_configFirst(hasMeasured, hasConfig) ==
    IF hasConfig THEN DataSourceConfiguredEstimate
    ELSE IF hasMeasured THEN DataSourceMeasured
    ELSE DataSourceHeuristicOnly

\* the data-source label
dataSource(hasMeasured, hasConfig) ==
    IF hasMeasured THEN DataSourceMeasured
    ELSE IF hasConfig THEN DataSourceConfiguredEstimate
    ELSE DataSourceHeuristicOnly

\* the header with the title written before the marker
reportHeader_titleFirst(in, hasMeasured, hasConfig) ==
    <<L("title", "Plarix LLM Cost Analysis"),
      L("marker", commentMarker),
      L("definitions", "Before = base branch, After = PR head"),
      L("datasource", dataSource(hasMeasured, hasConfig)),
      L("pricing", [updated |-> safeValue(in.Pricing.LastUpdated,
                                          <<"u","n","k","n","o","w","n">>),
                    sources |-> in.Pricing.Sources])>>


reportHeader(in, hasMeasured, hasConfig) ==
    <<L("marker", commentMarker),
      L("title", "Plarix LLM Cost Analysis"),
      L("definitions", "Before = base branch, After = PR head"),
      L("datasource", dataSource(hasMeasured, hasConfig)),
      L("pricing", [updated |-> safeValue(in.Pricing.LastUpdated,
                                          <<"u","n","k","n","o","w","n">>),
                    sources |-> in.Pricing.Sources])>>

\* the mode dispatch with the estimate also made when no configuration was
\* found
reportBody_estimateWithoutConfig(in, order, hasMeasured, hasConfig, hasSignals) ==
    IF hasMeasured THEN buildMeasuredReport(in, order)
    ELSE buildConfiguredEstimateReport(in, hasSignals)

reportBody(in, order, hasMeasured, hasConfig, hasSignals) ==
    IF hasMeasured THEN buildMeasuredReport(in, order)
    ELSE IF hasConfig THEN buildConfiguredEstimateReport(in, hasSignals)
    ELSE buildHeuristicOnlyReport(in, hasSignals)

withHeader(head, body) == [panic |-> body.panic, lines |-> head \o body.lines]

buildReport(in, order) ==
    withHeader(reportHeader(in, in.BaseMeasured # Nil \/ in.HeadMeasured # Nil,
                            in.ConfigFound),
               reportBody(in, order, in.BaseMeasured # Nil \/ in.HeadMeasured # Nil,
                          in.ConfigFound, hasAnySignals(in.Signals)))

-----------------------------------------------------------------------------
(* Configuration loader.  A line of the file is its text and its size in   *)
(* bytes; the bufio.Scanner ends the scan at a line that does not fit its  *)
(* buffer.                                                                 *)

\* strings.TrimSpace
RECURSIVE TrimLeft(_)
TrimLeft(s) ==
    IF Len(s) > 0 /\ s[1] \in {" ", "\t"} THEN TrimLeft(Tail(s)) ELSE s

RECURSIVE TrimRight(_)
TrimRight(s) ==
    IF Len(s) > 0 /\ s[Len(s)] \in {" ", "\t"}
    THEN TrimRight(SubSeq(s, 1, Len(s) - 1)) ELSE s

TrimSpace(s) == TrimRight(TrimLeft(s))

\* strings.HasPrefix, strings.HasSuffix for a one-character affix
HasPrefix(s, c) == Len(s) > 0 /\ s[1] = c
HasSuffix(s, c) == Len(s) > 0 /\ s[Len(s)] = c

\* strings.TrimSuffix for a one-character suffix
TrimSuffix(s, c) == IF HasSuffix(s, c) THEN SubSeq(s, 1, Len(s) - 1) ELSE s

\* the parts of s around the separator at position i
splitAt(s, i) == <<SubSeq(s, 1, i - 1), SubSeq(s, i + 1, Len(s))>>

\* strings.SplitN(s, ":", 2)
SplitN(s) ==
    IF \E i \in 1..Len(s) : s[i] = ":"
    THEN splitAt(s, Min({i \in 1..Len(s) : s[i] = ":"}))
    ELSE <<s>>

\* strings.Trim(s, "\"'"): the double quote is the character "DQ"
RECURSIVE TrimQuotesLeft(_)
TrimQuotesLeft(s) ==
    IF Len(s) > 0 /\ s[1] \in {"'", "DQ"} THEN TrimQuotesLeft(Tail(s)) ELSE s

RECURSIVE TrimQuotesRight(_)
TrimQuotesRight(s) ==
    IF Len(s) > 0 /\ s[Len(s)] \in {"'", "DQ"}
    THEN TrimQuotesRight(SubSeq(s, 1, Len(s) - 1)) ELSE s

TrimQuotes(s) == TrimQuotesRight(TrimQuotesLeft(s))

DigitValue(c) == (CHOOSE i \in 1..10 : Digits[i] = c) - 1
IsDigit(c) == \E i \in 1..10 : Digits[i] = c

RECURSIVE DigitsValue(_)
DigitsValue(s) ==
    IF Len(s) = 0 THEN 0
    ELSE 10 * DigitsValue(SubSeq(s, 1, Len(s) - 1)) + DigitValue(s[Len(s)])

\* the value of a string of digits, none for any other string
atoiDigits(s, sign) ==
    IF Len(s) > 0 /\ \A i \in 1..Len(s) : IsDigit(s[i])
    THEN [ok |-> TRUE, v |-> sign * DigitsValue(s)]
    ELSE [ok |-> FALSE, v |-> 0]

\* strconv.Atoi: an optional sign and decimal digits
Atoi(s) ==
    IF HasPrefix(s, "-") THEN atoiDigits(Tail(s), -1)
    ELSE IF HasPrefix(s, "+") THEN atoiDigits(Tail(s), 1)
    ELSE atoiDigits(s, 1)

cl_assumptions == <<"a","s","s","u","m","p","t","i","o","n","s",":">>
cl_other == <<"o","t","h","e","r",":">>
cl_requests == <<" "," ","r","e","q","u","e","s","t","s","_","p","e","r","_","d","a","y",":"," ","5","0","0">>
cl_requests_word == <<" "," ","r","e","q","u","e","s","t","s","_","p","e","r","_","d","a","y",":"," ","m","a","n","y">>
cl_input == <<" "," ","a","v","g","_","i","n","p","u","t","_","t","o","k","e","n","s",":"," ","1","2","0","0">>
cl_output_negative == <<" "," ","a","v","g","_","o","u","t","p","u","t","_","t","o","k","e","n","s",":"," ","-","5">>
cl_provider == <<" "," ","p","r","o","v","i","d","e","r",":"," ","'","O","p","e","n","A","I","'">>
cl_model == <<" "," ","m","o","d","e","l",":"," ","g","p","t","-","4","o">>
cl_model_top == <<"m","o","d","e","l",":"," ","g","p","t","-","X">>
cl_comment == <<"#"," ","m","o","d","e","l",":"," ","g","p","t","-","X">>

ConfigText(text) == [text |-> text, size |-> Len(text)]

\* a comment line longer than the buffer of the scanner
cl_long == [text |-> <<"#">>, size |-> 70000]

ConfigLines ==
    {ConfigText(t) : t \in {cl_assumptions, cl_other, cl_requests, cl_requests_word,
                            cl_input, cl_output_negative, cl_provider, cl_model,
                            cl_model_top, cl_comment}}
    \cup {cl_long}

k_assumptions == <<"a","s","s","u","m","p","t","i","o","n","s">>
k_requests == <<"r","e","q","u","e","s","t","s","_","p","e","r","_","d","a","y">>
k_input == <<"a","v","g","_","i","n","p","u","t","_","t","o","k","e","n","s">>
k_output == <<"a","v","g","_","o","u","t","p","u","t","_","t","o","k","e","n","s">>
k_provider == <<"p","r","o","v","i","d","e","r">>
k_model == <<"m","o","d","e","l">>

\* the switch on the key: the field set from the value, when it parses
setField(a, key, val) ==
    IF key = k_requests
    THEN (IF Atoi(val).ok THEN [a EXCEPT !.RequestsPerDay = Atoi(val).v] ELSE a)
    ELSE IF key = k_input
    THEN (IF Atoi(val).ok THEN [a EXCEPT !.AvgInputTokens = Atoi(val).v] ELSE a)
    ELSE IF key = k_output
    THEN (IF Atoi(val).ok THEN [a EXCEPT !.AvgOutputTokens = Atoi(val).v] ELSE a)
    ELSE IF key = k_provider THEN [a EXCEPT !.Provider = ToLower(val)]
    ELSE IF key = k_model THEN [a EXCEPT !.Model = val]
    ELSE a

\* a "key: value" line of the section in force
setFromParts(a, parts) ==
    IF Len(parts) # 2 THEN a
    ELSE setField(a, TrimSpace(parts[1]), TrimQuotes(TrimSpace(parts[2])))

\* the loop body of loadConfig for the trimmed line: the section in force
\* and the assumptions after the line
configStep(st, line) ==
    IF line = <<>> \/ HasPrefix(line, "#") THEN st
    ELSE IF HasSuffix(line, ":") THEN [st EXCEPT !.current = TrimSuffix(line, ":")]
    ELSE IF st.current # k_assumptions THEN st
    ELSE [st EXCEPT !.a = setFromParts(st.a, SplitN(line))]

\* the scanner loop of loadConfig from line i on
RECURSIVE scanConfig(_, _, _)
scanConfig(lines, i, st) ==
    IF i > Len(lines) THEN st.a
    ELSE IF lines[i].size >= MaxScanTokenSize THEN st.a
    ELSE scanConfig(lines, i + 1, configStep(st, TrimSpace(lines[i].text)))

loadConfig(file) ==
    IF ~file.exists THEN [cfg |-> DefaultAssumptions, found |-> FALSE]
    ELSE [cfg |-> scanConfig(file.lines, 1,
                             [current |-> <<>>, a |-> DefaultAssumptions]),
          found |-> TRUE]

-----------------------------------------------------------------------------
(* SpecConfig: loadConfig on every file of up to MaxConfigLines lines.     *)

InitConfig ==
    /\ pc = "config"
    /\ pricing = EmbeddedPricing
    /\ cfgFile \in {File(FALSE, <<>>)}
                     \cup {File(TRUE, ls) : ls \in SeqsUpTo(ConfigLines, MaxConfigLines)}
    /\ cfg = DefaultAssumptions /\ cfgFound = FALSE /\ estimate = <<>>
    /\ env = <<>> /\ effects = <<>> /\ exitCode = -1 /\ IdleApi
    /\ IdleResolver /\ IdleMeasured /\ IdleReport

CallLoadConfig ==
    /\ pc = "config"
    /\ cfg' = loadConfig(cfgFile).cfg
    /\ cfgFound' = loadConfig(cfgFile).found
    /\ pc' = "configured"
    /\ UNCHANGED <<pricing, resolverVars, estimate, measuredVars, reportVars,
                   apiVars, cfgFile, env, effects, exitCode>>

NextConfig == CallLoadConfig

SpecConfig == InitConfig /\ [][NextConfig]_vars

\* the field of Assumptions each key of the file sets
FieldKeys ==
    [RequestsPerDay |-> k_requests, AvgInputTokens |-> k_input,
     AvgOutputTokens |-> k_output, Provider |-> k_provider, Model |-> k_model]

Indent(text) == Len(text) - Len(TrimLeft(text))

IsContent(l) == TrimSpace(l.text) # <<>> /\ ~HasPrefix(TrimSpace(l.text), "#")

\* the line reads "key: value"
IsKeyLine(l, key) ==
    /\ IsContent(l)
    /\ Len(SplitN(TrimSpace(l.text))) = 2
    /\ TrimSpace(SplitN(TrimSpace(l.text))[1]) = key

ValueOfLine(l) == TrimQuotes(TrimSpace(SplitN(TrimSpace(l.text))[2]))

Parseable(key, l) == key \in {k_provider, k_model} \/ Atoi(ValueOfLine(l)).ok

\* line i is nested in the top-level assumptions section: it is indented,
\* and the last unindented line before it is "assumptions:"
UnderAssumptions(file, i) ==
    /\ Indent(file.lines[i].text) > 0
    /\ \E j \in 1..(i - 1) :
          /\ file.lines[j].text = cl_assumptions
          /\ \A k \in (j + 1)..(i - 1) :
                IsContent(file.lines[k]) => Indent(file.lines[k].text) > 0

\* C19: loadConfig starts from the defaults and overwrites a field only when
\* the file has its key under the assumptions section with a parseable
\* value; a field whose key the file lacks keeps its default, and a file
\* that cannot be opened gives the defaults with found = false.
C19_DefaultsKept ==
    pc = "configured" =>
        /\ ~cfgFile.exists => (cfg = DefaultAssumptions /\ ~cfgFound)
        /\ \A f \in DOMAIN FieldKeys :
              /\ cfg[f] # DefaultAssumptions[f] =>
                    \E i \in 1..Len(cfgFile.lines) :
                       /\ UnderAssumptions(cfgFile, i)
                       /\ IsKeyLine(cfgFile.lines[i], FieldKeys[f])
                       /\ Parseable(FieldKeys[f], cfgFile.lines[i])
              /\ (\A i \in 1..Len(cfgFile.lines) :
                     ~IsKeyLine(cfgFile.lines[i], FieldKeys[f]))
                    => cfg[f] = DefaultAssumptions[f]

-----------------------------------------------------------------------------
(* SpecReport: main from the loading of the measured files to buildReport, *)
(* over the drawn configurations, diff signals and measured files.         *)

WithModel(a, mdl) == [a EXCEPT !.Model = mdl]
WithRequests(a, n) == [a EXCEPT !.RequestsPerDay = n]

ReportConfigs ==
    {DefaultAssumptions, WithModel(DefaultAssumptions, s_notreal),
     WithRequests(DefaultAssumptions, -5)}

SignalModelLists == {<<>>, <<s_gpt4o>>, <<s_notreal, s_gpt4o, s_notreal>>}
SignalMaxLists == {<<>>, <<4096, 2048, 4096>>}
SignalRetryLists == {<<>>, <<3>>}

\* the drawn diff signals: each kind absent, on one side only or on both
SignalPairs(lists) == {<<a, b>> \in lists \X lists : a = <<>> \/ b # <<>>}

ReportSignals ==
    {[BeforeModels |-> ms[1], AfterModels |-> ms[2], BeforeMax |-> xs[1],
      AfterMax |-> xs[2], BeforeRetry |-> rs[2], AfterRetry |-> rs[1]] :
        ms \in SignalModelLists \X SignalModelLists,
        xs \in SignalPairs(SignalMaxLists), rs \in SignalPairs(SignalRetryLists)}

ReportFiles ==
    {NoPath, File(TRUE, <<l_blank, l_invalid>>), File(TRUE, <<l_gpt4o, l_mini>>),
     File(TRUE, <<l_unknown>>), File(TRUE, <<l_negative>>),
     File(TRUE, <<l_mini, l_partial>>), File(TRUE, <<l_gpt4o>>)}

\* the orders a range over a map with key set S can take
Perms(S) ==
    {f \in [1..Cardinality(S) -> S] : \A x \in S : \E i \in DOMAIN f : f[i] = x}

KeyOrders(ptr) == IF ptr = Nil THEN {<<>>} ELSE Perms(DOMAIN ptr[1].Models)

InitReport ==
    /\ pc = "loadBase"
    /\ pricing = EmbeddedPricing
    /\ cfgFound \in BOOLEAN
    /\ cfg \in (IF cfgFound THEN ReportConfigs ELSE {DefaultAssumptions})
    /\ estimate = <<>>
    /\ signals \in ReportSignals
    /\ baseFile \in ReportFiles
    /\ headFile \in ReportFiles
    /\ baseMeasured = Nil /\ headMeasured = Nil
    /\ mapOrder = <<>> /\ report = <<>>
    /\ IdleResolver /\ IdleProcess

LoadBaseMeasured ==
    /\ pc = "loadBase"
    /\ baseMeasured' = IF baseFile.set THEN loadMeasuredUsage(baseFile, pricing) ELSE Nil
    /\ pc' = "loadHead"
    /\ UNCHANGED <<processVars, pricing, resolverVars, estimateVars, baseFile, headFile,
                   headMeasured, reportVars>>

LoadHeadMeasured ==
    /\ pc = "loadHead"
    /\ headMeasured' = IF headFile.set THEN loadMeasuredUsage(headFile, pricing) ELSE Nil
    /\ pc' = "build"
    /\ UNCHANGED <<processVars, pricing, resolverVars, estimateVars, baseFile, headFile,
                   baseMeasured, reportVars>>

BuildReport ==
    /\ pc = "build"
    /\ \E ob \in KeyOrders(baseMeasured), oh \in KeyOrders(headMeasured) :
          /\ mapOrder' = [base |-> ob, head |-> oh]
          /\ report' = <<buildReport(reportInput(cfgFound, cfg, pricing, signals,
                                                 baseMeasured, headMeasured),
                                     mapOrder')>>
    /\ pc' = "done"
    /\ UNCHANGED <<processVars, pricing, resolverVars, estimateVars, measuredVars, signals>>

NextReport == LoadBaseMeasured \/ LoadHeadMeasured \/ BuildReport

SpecReport == InitReport /\ [][NextReport]_vars

LinesOfKind(lines, kind) == SelectSeq(lines, LAMBDA l : l.kind = kind)

\* the mode the presence of the inputs calls for
ExpectedMode ==
    IF baseMeasured # Nil \/ headMeasured # Nil THEN "MEASURED"
    ELSE IF cfgFound THEN "CONFIGURED ESTIMATE"
    ELSE "HEURISTIC ONLY"

\* C1: buildReport picks one mode by the presence of its inputs alone,
\* Measured before Configured-Estimate before Heuristic-Only, and writes
\* exactly one data-source label and exactly one mode section, both of the
\* mode picked.
C1_ModeSelection ==
    pc = "done" =>
        LET labels == LinesOfKind(report[1].lines, "datasource")
            sections == LinesOfKind(report[1].lines, "section")
        IN /\ Len(labels) = 1 /\ labels[1].v = ExpectedMode
           /\ Len(sections) = 1 /\ sections[1].v = ExpectedMode

C1_Witness ==
    /\ pc = "done" /\ ~report[1].panic
    /\ cfgFound /\ baseMeasured = Nil /\ headMeasured # Nil
    /\ hasAnySignals(signals)
    /\ LinesOfKind(report[1].lines, "datasource")[1].v = "MEASURED"

\* the records of a measured file that were priced without an exact match
ApproximateRecords(file) ==
    IF ~file.set \/ ~file.exists THEN {}
    ELSE {i \in CountedLines(file) :
             ~priceFor(pricing, FieldOf(file.lines[i], "provider"),
                       FieldOf(file.lines[i], "model")).ok}

\* a cost of the report was computed at a price resolved without an exact
\* match
ApproximateCostShown ==
    IF ExpectedMode = "MEASURED"
    THEN ApproximateRecords(baseFile) # {} \/ ApproximateRecords(headFile) # {}
    ELSE IF ExpectedMode = "CONFIGURED ESTIMATE"
    THEN \/ ~priceFor(pricing, cfg.Provider,
                      firstOrDefault(signals.BeforeModels, cfg.Model)).ok
         \/ ~priceFor(pricing, cfg.Provider,
                      firstOrDefault(signals.AfterModels, cfg.Model)).ok
    ELSE FALSE

HasApproximateNote == LinesOfKind(report[1].lines, "pricing_not_found") # <<>>

\* C9: a report that shows a cost computed at a price resolved with
\* exactMatch = false carries a note that the pricing was approximate or
\* not found, in Configured-Estimate mode and in Measured mode.
C9_ApproximateAnnotated ==
    (pc = "done" /\ ~report[1].panic /\ ApproximateCostShown) => HasApproximateNote

\* C10: buildReport returns a non-empty report with its marker, data-source
\* label and mode section for every combination of inputs, without
\* panicking; with no config, no measured data and no signals the report is
\* Heuristic-Only and states that no cost-relevant change was detected.
C10_AlwaysReports ==
    pc = "done" =>
        /\ ~report[1].panic
        /\ Len(report[1].lines) > 0
        /\ report[1].lines[1].kind = "marker"
        /\ Len(LinesOfKind(report[1].lines, "datasource")) = 1
        /\ Len(LinesOfKind(report[1].lines, "section")) = 1
        /\ (~cfgFound /\ baseMeasured = Nil /\ headMeasured = Nil
            /\ ~hasAnySignals(signals)) =>
              /\ LinesOfKind(report[1].lines, "section")[1].v = "HEURISTIC ONLY"
              /\ Len(LinesOfKind(report[1].lines, "no_changes")) = 1

\* the kinds of line a report without any cost may hold
CostFreeKinds ==
    {"marker", "title", "definitions", "datasource", "pricing", "section", "text",
     "rule", "signals_heading", "signals_title", "signal", "blank", "no_changes",
     "howto"}

\* the catalog with its price entries taken out
WithoutPrices(pr) == [pr EXCEPT !.Models = <<>>]

\* C11: in Heuristic-Only mode (no config found, no measured summary) the
\* report holds no cost figure and no cost table, only the diff signals (or
\* the no-change statement) and the guidance for the other modes; no price
\* is resolved and no estimate made: the report is the same whatever the
\* price entries of the catalog and whatever the assumptions.
C11_HeuristicNoCost ==
    (pc = "done" /\ ExpectedMode = "HEURISTIC ONLY") =>
        /\ ~report[1].panic
        /\ \A i \in 1..Len(report[1].lines) : report[1].lines[i].kind \in CostFreeKinds
        /\ hasAnySignals(signals) <=> LinesOfKind(report[1].lines, "signal") # <<>>
        /\ ~hasAnySignals(signals) <=> LinesOfKind(report[1].lines, "no_changes") # <<>>
        /\ LinesOfKind(report[1].lines, "howto") # <<>>
        /\ report[1] = buildReport(reportInput(cfgFound, cfg, WithoutPrices(pricing),
                                               signals, baseMeasured, headMeasured),
                                   mapOrder)
        /\ report[1] = buildReport(reportInput(cfgFound, WithRequests(cfg, 1), pricing,
                                               signals, baseMeasured, headMeasured),
                                   mapOrder)

C11_Witness ==
    /\ pc = "done" /\ ExpectedMode = "HEURISTIC ONLY"
    /\ signals.BeforeModels = <<s_gpt4o>> /\ signals.AfterModels = <<>>
    /\ Len(LinesOfKind(report[1].lines, "signal")) >= 1
    /\ LinesOfKind(report[1].lines, "signal")[1].v.before = s_gpt4o
    /\ LinesOfKind(report[1].lines, "signal")[1].v.after = Placeholder

-----------------------------------------------------------------------------
(* SpecMain: the process, from findPricing to the PR comment.  env holds   *)
(* what the process finds: whether the embedded catalog parses, the        *)
(* environment variables, the event file, the answers of the GitHub API.   *)
(* effects is the trace of what the process does to the outside.           *)

\* the zero value PricingFile{}
ZeroPricing == [LastUpdated |-> <<>>, Sources |-> <<>>, Models |-> <<>>]

\* findPricing with the parse error dropped
findPricing_errorDropped(parses) ==
    [err |-> FALSE, p |-> IF parses THEN EmbeddedPricing ELSE ZeroPricing]

\* findPricing: the embedded catalog, or the error of json.Unmarshal
findPricing(parses) ==
    IF parses THEN [err |-> FALSE, p |-> EmbeddedPricing]
    ELSE [err |-> TRUE, p |-> ZeroPricing]

Stderr(text) == [op |-> "stderr", text |-> text]
Stdout(body) == [op |-> "stdout", body |-> body]
Request(method, what) == [op |-> "request", method |-> method, what |-> what]
RequestWith(method, what, body) ==
    [op |-> "request", method |-> method, what |-> what, body |-> body]
WriteFile(body) == [op |-> "writeFile", body |-> body]

\* fatalf: the message on stderr, then os.Exit(1)
fatalf(before, text) ==
    /\ effects' = before \o <<Stderr(text)>>
    /\ exitCode' = 1
    /\ pc' = "exited"

MainSignals ==
    {NoSignals,
     [NoSignals EXCEPT !.BeforeModels = <<s_gpt4o>>, !.AfterModels = <<s_gpt4omini>>]}

MainConfigFiles ==
    {File(FALSE, <<>>), File(TRUE, <<ConfigText(cl_assumptions), ConfigText(cl_model)>>)}

MainEnvs ==
    [pricingOk : BOOLEAN, eventPath : BOOLEAN, repo : {"", "noslash", "owner/name"},
     token : BOOLEAN, event : {"unreadable", "notPR", "pr"}, filesOk : BOOLEAN,
     signals : MainSignals, summaryPath : BOOLEAN,
     comments : {"error", "none", "marked"}, writeOk : BOOLEAN]

InitMain ==
    /\ pc = "findPricing"
    /\ pricing = ZeroPricing
    /\ env \in MainEnvs
    /\ cfgFile \in MainConfigFiles
    /\ baseFile \in {NoPath, File(TRUE, <<l_negative>>)}
    /\ headFile \in {NoPath, File(TRUE, <<l_gpt4o, l_mini>>)}
    /\ baseMeasured = Nil /\ headMeasured = Nil
    /\ effects = <<>> /\ exitCode = -1 /\ IdleApi
    /\ IdleResolver /\ IdleEstimate /\ IdleReport

\* main: pricing, err := findPricing()
MainFindPricing ==
    /\ pc = "findPricing"
    /\ IF findPricing(env.pricingOk).err
       THEN fatalf(effects, "failed to load pricing") /\ UNCHANGED pricing
       ELSE /\ pricing' = findPricing(env.pricingOk).p
            /\ pc' = "env"
            /\ UNCHANGED <<effects, exitCode>>
    /\ UNCHANGED <<resolverVars, estimateVars, measuredVars, reportVars, apiVars,
                   cfgFile, env>>

\* main: the three required environment variables
MainCheckEnv ==
    /\ pc = "env"
    /\ IF ~env.eventPath THEN fatalf(effects, "GITHUB_EVENT_PATH is empty")
       ELSE IF env.repo = "" THEN fatalf(effects, "GITHUB_REPOSITORY is empty")
       ELSE IF ~env.token
       THEN fatalf(effects, "GITHUB_TOKEN is required to read PR diffs")
       ELSE pc' = "readPRNumber" /\ UNCHANGED <<effects, exitCode>>
    /\ UNCHANGED <<pricing, resolverVars, estimateVars, measuredVars, reportVars,
                   apiVars, cfgFile, env>>

\* main: readPRNumber, and the return outside a pull request
MainReadPRNumber ==
    /\ pc = "readPRNumber"
    /\ IF env.event = "unreadable" THEN fatalf(effects, "cannot read PR number")
       ELSE IF env.event = "notPR"
       THEN /\ effects' = Append(effects,
                                 Stdout("plarix: not a pull request context, skipping analysis"))
            /\ exitCode' = 0
            /\ pc' = "exited"
       ELSE pc' = "fetch" /\ UNCHANGED <<effects, exitCode>>
    /\ UNCHANGED <<pricing, resolverVars, estimateVars, measuredVars, reportVars,
                   apiVars, cfgFile, env>>

\* main: fetchPRFiles and extractSignals
MainFetchPRFiles ==
    /\ pc = "fetch"
    /\ IF ~env.filesOk
       THEN /\ fatalf(Append(effects, Request("GET", "files")),
                      "failed to fetch PR files")
            /\ UNCHANGED signals
       ELSE /\ effects' = Append(effects, Request("GET", "files"))
            /\ signals' = env.signals
            /\ pc' = "load"
            /\ UNCHANGED exitCode
    /\ UNCHANGED <<pricing, resolverVars, estimateVars, measuredVars, mapOrder, report,
                   apiVars, cfgFile, env>>

\* main: loadConfig and the two loadMeasuredUsage calls
MainLoadInputs ==
    /\ pc = "load"
    /\ cfg' = loadConfig(cfgFile).cfg
    /\ cfgFound' = loadConfig(cfgFile).found
    /\ baseMeasured' = IF baseFile.set THEN loadMeasuredUsage(baseFile, pricing) ELSE Nil
    /\ headMeasured' = IF headFile.set THEN loadMeasuredUsage(headFile, pricing) ELSE Nil
    /\ pc' = "build"
    /\ UNCHANGED <<pricing, resolverVars, estimate, baseFile, headFile, reportVars,
                   apiVars, cfgFile, env, effects, exitCode>>

\* main: buildReport; a panic ends the process with status 2
MainBuildReport ==
    /\ pc = "build"
    /\ \E ob \in KeyOrders(baseMeasured), oh \in KeyOrders(headMeasured) :
          /\ mapOrder' = [base |-> ob, head |-> oh]
          /\ report' = <<buildReport(reportInput(cfgFound, cfg, pricing, signals,
                                                 baseMeasured, headMeasured),
                                     mapOrder')>>
    /\ IF report'[1].panic
       THEN /\ effects' = Append(effects, Stderr("panic: strings: negative Repeat count"))
            /\ exitCode' = 2
            /\ pc' = "exited"
       ELSE pc' = "write" /\ UNCHANGED <<effects, exitCode>>
    /\ UNCHANGED <<pricing, resolverVars, estimateVars, measuredVars, signals,
                   apiVars, cfgFile, env>>

\* main: the report to the job summary file, or to stdout
MainWriteReport ==
    /\ pc = "write"
    /\ effects' = Append(effects, IF env.summaryPath THEN WriteFile(report[1].lines)
                                  ELSE Stdout(report[1].lines))
    /\ pc' = "comment"
    /\ UNCHANGED <<pricing, resolverVars, estimateVars, measuredVars, reportVars,
                   apiVars, cfgFile, env, exitCode>>

\* strings.Contains(c.Body, commentMarker)
ContainsMarker(body) == \E i \in 1..Len(body) : body[i] = L("marker", commentMarker)

\* createComment / updateComment: the request, and its error
writeComment(method, body, ok) ==
    <<RequestWith(method, "comment", body)>>
    \o (IF ok THEN <<>> ELSE <<Stderr("warn: failed to update PR comment")>>)

\* upsertComment creating a comment and then updating the one found
upsertComment_both(repo, comments, ok, body) ==
    IF repo = "noslash" THEN <<Stderr("warn: failed to update PR comment")>>
    ELSE IF comments = "error"
    THEN <<Request("GET", "comments"), Stderr("warn: failed to update PR comment")>>
    ELSE <<Request("GET", "comments")>> \o writeComment("POST", body, ok)
         \o writeComment("PATCH", body, ok)

\* upsertComment: the requests it makes, and the warning main prints on its
\* error
upsertComment(repo, comments, ok, body) ==
    IF repo = "noslash" THEN <<Stderr("warn: failed to update PR comment")>>
    ELSE IF comments = "error"
    THEN <<Request("GET", "comments"), Stderr("warn: failed to update PR comment")>>
    ELSE IF comments = "none"
    THEN <<Request("GET", "comments")>> \o writeComment("POST", body, ok)
    ELSE <<Request("GET", "comments")>> \o writeComment("PATCH", body, ok)

\* main: upsertComment, then the end of main
MainUpsertComment ==
    /\ pc = "comment"
    /\ effects' = effects \o upsertComment(env.repo, env.comments, env.writeOk,
                                           report[1].lines)
    /\ exitCode' = 0
    /\ pc' = "exited"
    /\ UNCHANGED <<pricing, resolverVars, estimateVars, measuredVars, reportVars,
                   apiVars, cfgFile, env>>

NextMain ==
    \/ MainFindPricing
    \/ MainCheckEnv
    \/ MainReadPRNumber
    \/ MainFetchPRFiles
    \/ MainLoadInputs
    \/ MainBuildReport
    \/ MainWriteReport
    \/ MainUpsertComment

SpecMain == InitMain /\ [][NextMain]_vars

\* C13: when the pricing catalog cannot be parsed the process ends with a
\* failure status at once: no PR file is fetched, no report is written to
\* the job summary or to stdout, no PR comment is created or updated.
C13_PricingFatal ==
    (pc # "findPricing" /\ ~env.pricingOk) =>
        /\ pc = "exited"
        /\ exitCode = 1
        /\ effects = <<Stderr("failed to load pricing")>>

C13_Witness ==
    /\ pc = "exited" /\ ~env.pricingOk /\ exitCode = 1
    /\ env.eventPath /\ env.token /\ env.event = "pr" /\ env.filesOk
    /\ Len(effects) = 1


\* C14: buildReport is a function of its input: every invocation on the
\* input of this run (same config, signals, catalog and measured summaries)
\* returns the report this run returned.
C14_Deterministic ==
    pc = "done" =>
        \A ob \in KeyOrders(baseMeasured), oh \in KeyOrders(headMeasured) :
            buildReport(reportInput(cfgFound, cfg, pricing, signals,
                                    baseMeasured, headMeasured),
                        [base |-> ob, head |-> oh]) = report[1]


\* the models of the counted records of a stream, in the order of the stream
StreamModels(file) ==
    LET idx == SelectSeq([i \in 1..Len(file.lines) |-> i],
                         LAMBDA i : i \in CountedLines(file))
    IN [k \in 1..Len(idx) |-> FieldOf(file.lines[idx[k]], "model")]

\* the models of both streams without duplicates, in first-seen order, the
\* base stream first
FirstSeenModels == uniqueStrings(StreamModels(baseFile) \o StreamModels(headFile))

\* C15: with both summaries present the "Models used" list is the union of
\* the models of both sides without duplicates in first-seen order: the
\* base-side models in the order of the base stream, then the head-side
\* models not yet listed in the order of the head stream.
C15_ModelsFirstSeen ==
    (pc = "done" /\ ~report[1].panic /\ baseMeasured # Nil /\ headMeasured # Nil) =>
        /\ Len(LinesOfKind(report[1].lines, "models")) = 1
        /\ LinesOfKind(report[1].lines, "models")[1].v = Join(FirstSeenModels, CommaSpace)


\* the percentage the claim calls for: delta / baseCost * 100 unless
\* baseCost is 0
PercentOf(delta, baseCost) ==
    IF baseCost # Zero THEN RatMul(RatDiv(delta, baseCost), FromInt(100)) ELSE Zero

\* C17: with both summaries present the report shows delta = headCost -
\* baseCost and deltaPercent = delta / baseCost * 100 whenever baseCost is
\* not 0, and 0 when baseCost is 0.
C17_DeltaPercent ==
    (pc = "done" /\ ~report[1].panic /\ baseMeasured # Nil /\ headMeasured # Nil) =>
        LET d == LinesOfKind(report[1].lines, "delta")
            delta == RatSub(headMeasured[1].TotalCost, baseMeasured[1].TotalCost)
        IN /\ Len(d) = 1
           /\ d[1].v.delta = FormatFloat(delta, 4)
           /\ d[1].v.percent = FormatFloat(PercentOf(delta, baseMeasured[1].TotalCost), 1)


\* the model the estimate of a side is made for
SideModel(list) == IF Len(list) > 0 THEN list[1] ELSE cfg.Model

\* the table row of a side: the model and its cost under the configured
\* provider, token counts and requests per day
SideRow(side, mdl) ==
    LET price == priceFor(pricing, cfg.Provider, mdl).m
        perRequest == callCost(cfg.AvgInputTokens, cfg.AvgOutputTokens, price)
        monthly == RatMul(RatMul(perRequest, FromInt(cfg.RequestsPerDay)), DaysPerMonth)
    IN L("row", [side |-> side, model |-> mdl,
                 perRequest |-> FormatFloat(perRequest, 4),
                 monthly |-> FormatFloat(monthly, 2)])

\* C18: in Configured-Estimate mode the before model is the first element
\* of the before-signal model list when that list is non-empty and the
\* configured model otherwise, the after model likewise from the
\* after-signal list, and each is priced with the configured provider and
\* the configured token and request assumptions.
C18_EstimateModels ==
    (pc = "done" /\ ExpectedMode = "CONFIGURED ESTIMATE") =>
        /\ Len(LinesOfKind(report[1].lines, "row")) = 2
        /\ LinesOfKind(report[1].lines, "row")[1]
              = SideRow("Before", SideModel(signals.BeforeModels))
        /\ LinesOfKind(report[1].lines, "row")[2]
              = SideRow("After", SideModel(signals.AfterModels))

C18_Witness ==
    /\ pc = "done" /\ ExpectedMode = "CONFIGURED ESTIMATE" /\ ~report[1].panic
    /\ signals.BeforeModels = <<s_notreal, s_gpt4o, s_notreal>>
    /\ signals.AfterModels = <<>>
    /\ cfg.Model = s_gpt4omini
    /\ LinesOfKind(report[1].lines, "row")[1].v.model = s_notreal
    /\ LinesOfKind(report[1].lines, "row")[2].v.model = s_gpt4omini
    /\ LinesOfKind(report[1].lines, "row")[2].v.monthly = [units |-> 10800, prec |-> 2]


\* C20: every report buildReport returns, in every mode, begins with the
\* marker line "<!-- plarix-action -->", and is a body findExistingComment
\* takes for the comment of the action.
C20_MarkerFirst ==
    (pc = "done" /\ ~report[1].panic) =>
        /\ Len(report[1].lines) > 0
        /\ report[1].lines[1] = L("marker", "<!-- plarix-action -->")
        /\ ContainsMarker(report[1].lines)

C20_Witness ==
    /\ pc = "done" /\ ~report[1].panic
    /\ baseMeasured # Nil /\ headMeasured # Nil
    /\ report[1].lines[1].kind = "marker"
    /\ report[1].lines[1].v = commentMarker
    /\ LinesOfKind(report[1].lines, "section")[1].v = "MEASURED"



-----------------------------------------------------------------------------
(* The trend bar of the reports built under SpecReport.                    *)

\* the report has a trend bar: both summaries, or the configured estimate
HasTrendBar ==
    \/ baseMeasured # Nil /\ headMeasured # Nil
    \/ ExpectedMode = "CONFIGURED ESTIMATE"

\* the value each side of the trend bar stands for
BarValue(side) ==
    IF ExpectedMode = "MEASURED"
    THEN (IF side = "Before" THEN baseMeasured[1].TotalCost
          ELSE headMeasured[1].TotalCost)
    ELSE computeEstimate(cfg, pricing,
                         SideModel(IF side = "Before" THEN signals.BeforeModels
                                   ELSE signals.AfterModels)).cost.Monthly

LargerOf(a, b) == IF RatLt(a, b) THEN b ELSE a

\* value / scale * width, scale not 0
BarUnits(value, scale) == RatMul(RatDiv(value, scale), FromInt(22))

\* k is the integer part of x (toward zero)
IsIntegerPart(k, x) ==
    IF RatLt(x, Zero) THEN RatLt(FromInt(k - 1), x) /\ ~RatLt(FromInt(k), x)
    ELSE ~RatLt(x, FromInt(k)) /\ RatLt(x, FromInt(k + 1))

\* k is x rounded to the nearest integer, halves away from zero
IsRounded(k, x) ==
    LET twice == RatMul(x, FromInt(2))
    IN IF RatLt(x, Zero)
       THEN RatLt(FromInt(2 * k - 1), twice) /\ ~RatLt(FromInt(2 * k + 1), twice)
       ELSE ~RatLt(twice, FromInt(2 * k - 1)) /\ RatLt(twice, FromInt(2 * k + 1))

\* the filled count the truncating rule gives
IsTruncatedFill(filled, value, scale) ==
    LET x == BarUnits(value, scale)
    IN IF RatGt(value, Zero) /\ RatLt(x, FromInt(1)) THEN filled = 1
       ELSE IF ~RatLt(x, FromInt(22)) THEN filled = 22
       ELSE IsIntegerPart(filled, x)

\* the filled count the rounding rule gives
IsRoundedFill(filled, value, scale) ==
    LET x == BarUnits(value, scale)
    IN IF RatGt(value, Zero) /\ RatLt(RatMul(x, FromInt(2)), FromInt(1)) THEN filled = 1
       ELSE IF ~RatLt(RatMul(x, FromInt(2)), FromInt(43)) THEN filled = 22
       ELSE IsRounded(filled, x)

BarsOf(r) == LinesOfKind(r.lines, "bar")

\* C21 as stated: every bar written is 22 units wide with filled =
\* round(value / scaleMax * 22), raised to 1 when value > 0 and the rounded
\* count is 0, capped at 22, where scaleMax is max(beforeCost, afterCost),
\* replaced by 1 when both are 0.
C21_BarRounded ==
    (pc = "done" /\ HasTrendBar) =>
        LET larger == LargerOf(BarValue("Before"), BarValue("After"))
            scaleMax == IF BarValue("Before") = Zero /\ BarValue("After") = Zero
                        THEN FromInt(1) ELSE larger
        IN \A i \in 1..Len(BarsOf(report[1])) :
              LET b == BarsOf(report[1])[i].v
              IN /\ b.filled + b.empty = 22
                 /\ scaleMax # Zero
                 /\ IsRoundedFill(b.filled, BarValue(b.side), scaleMax)

\* C21 (amended): every bar written is 22 units wide with filled = the
\* integer part of value / scaleMax * 22, raised to 1 when value > 0 and
\* that part is 0, capped at 22, where scaleMax is the larger of beforeCost
\* and afterCost, replaced by 1 when that larger value is 0.
C21_BarTruncated ==
    (pc = "done" /\ HasTrendBar) =>
        LET larger == LargerOf(BarValue("Before"), BarValue("After"))
            scaleMax == IF larger = Zero THEN FromInt(1) ELSE larger
        IN \A i \in 1..Len(BarsOf(report[1])) :
              LET b == BarsOf(report[1])[i].v
              IN /\ b.filled + b.empty = 22
                 /\ IsTruncatedFill(b.filled, BarValue(b.side), scaleMax)

\* C21 witness: a finished report whose Before bar stands for a value whose
\* units have a fraction of a half or more, so that rounding and truncating
\* part
C21_Witness ==
    /\ pc = "done" /\ HasTrendBar /\ ~report[1].panic
    /\ Len(BarsOf(report[1])) = 2
    /\ LET larger == LargerOf(BarValue("Before"), BarValue("After"))
           b == BarsOf(report[1])[1].v
       IN /\ larger # Zero
          /\ IsTruncatedFill(b.filled, BarValue("Before"), larger)
          /\ ~IsRoundedFill(b.filled, BarValue("Before"), larger)


\* C22: every Assumptions value loadConfig returns has requestsPerDay > 0,
\* avgInputTokens >= 0 and avgOutputTokens >= 0, so that the per-request and
\* the monthly cost computed from it with an entry of the catalog are not
\* negative.
C22_AssumptionsInDomain ==
    pc = "configured" =>
        /\ cfg.RequestsPerDay > 0
        /\ cfg.AvgInputTokens >= 0
        /\ cfg.AvgOutputTokens >= 0
        /\ \A i \in 1..Len(pricing.Models) :
              LET e == estimateAt(cfg, [m |-> pricing.Models[i], ok |-> TRUE])
              IN ~RatLt(e.cost.PerRequest, Zero) /\ ~RatLt(e.cost.Monthly, Zero)


-----------------------------------------------------------------------------
(* The diff-signal subsection and the single-sided Measured report.        *)

\* at least one of the six signal lists is not empty
AnySignalList ==
    \E f \in {"BeforeModels", "AfterModels", "BeforeMax", "AfterMax",
              "BeforeRetry", "AfterRetry"} : signals[f] # <<>>

\* the report holds the diff-signal subsection
SubsectionRendered(r) == Len(LinesOfKind(r.lines, "signals_title")) > 0

\* C23: in each of the three modes, and in every sub-case of Measured, a
\* report returned holds the diff-signal subsection (once) if and only if at
\* least one of the six signal lists is non-empty.
C23_SignalsIffAny ==
    (pc = "done" /\ ~report[1].panic) =>
        /\ SubsectionRendered(report[1]) <=> AnySignalList
        /\ Len(LinesOfKind(report[1].lines, "signals_title")) <= 1
        /\ ~AnySignalList => Len(LinesOfKind(report[1].lines, "signal")) = 0

\* C23 witness: a Measured report of the head summary alone whose only
\* signal is a retry count, with the subsection
C23_Witness ==
    /\ pc = "done" /\ ~report[1].panic
    /\ baseMeasured = Nil /\ headMeasured # Nil
    /\ signals.BeforeModels = <<>> /\ signals.AfterModels = <<>>
    /\ signals.BeforeMax = <<>> /\ signals.AfterMax = <<>>
    /\ signals.BeforeRetry = <<3>> /\ signals.AfterRetry = <<>>
    /\ SubsectionRendered(report[1])

\* the values of a list, each kept at its first occurrence
RECURSIVE FirstSeen(_)
FirstSeen(list) ==
    IF list = <<>> THEN <<>>
    ELSE <<Head(list)>> \o FirstSeen(SelectSeq(Tail(list), LAMBDA x : x # Head(list)))

\* a side of a signal line: the placeholder, or the texts joined
SideText(texts) == IF texts = <<>> THEN Placeholder ELSE Join(texts, CommaSpace)

SignalLine(name, before, after) ==
    IF before = <<>> /\ after = <<>> THEN <<>>
    ELSE <<L("signal", [name |-> name, before |-> SideText(before),
                        after |-> SideText(after)])>>

\* C24: in the subsection of a report returned, a signal kind has a line if
\* and only if its before or its after list is non-empty; each side lists
\* its values de-duplicated in first-seen order, and a side without
\* detections is the placeholder, never the empty string.
C24_SignalLines ==
    (pc = "done" /\ ~report[1].panic /\ AnySignalList) =>
        /\ LinesOfKind(report[1].lines, "signal")
              = SignalLine("Models", FirstSeen(signals.BeforeModels),
                           FirstSeen(signals.AfterModels))
                \o SignalLine("max_tokens", itoaAll(FirstSeen(signals.BeforeMax)),
                              itoaAll(FirstSeen(signals.AfterMax)))
                \o SignalLine("retries", itoaAll(FirstSeen(signals.BeforeRetry)),
                              itoaAll(FirstSeen(signals.AfterRetry)))
        /\ \A i \in 1..Len(LinesOfKind(report[1].lines, "signal")) :
              /\ LinesOfKind(report[1].lines, "signal")[i].v.before # <<>>
              /\ LinesOfKind(report[1].lines, "signal")[i].v.after # <<>>

\* C24 witness: a report whose Models line lists a repeated model once on
\* the before side and the placeholder on the after side, with no
\* max_tokens line
C24_Witness ==
    /\ pc = "done" /\ ~report[1].panic
    /\ signals.BeforeModels = <<s_notreal, s_gpt4o, s_notreal>>
    /\ signals.AfterModels = <<>>
    /\ signals.BeforeMax = <<>> /\ signals.AfterMax = <<>>
    /\ signals.AfterRetry = <<3>>
    /\ Len(LinesOfKind(report[1].lines, "signal")) = 2
    /\ LinesOfKind(report[1].lines, "signal")[1].v
          = [name |-> "Models", before |-> Join(<<s_notreal, s_gpt4o>>, CommaSpace),
             after |-> Placeholder]

\* the summary of the one side measured
OnlySummary == IF headMeasured # Nil THEN headMeasured[1] ELSE baseMeasured[1]

ExactlyOneSummary == (baseMeasured = Nil) # (headMeasured = Nil)

\* C25: in Measured mode with exactly one summary the report shows that
\* side's call count, token totals and cost alone, without delta and
\* without trend bar, and a note naming the environment input that is
\* missing: PLARIX_MEASURE_BASE when only the head summary is present,
\* PLARIX_MEASURE_HEAD when only the base summary is present.
C25_SingleSide ==
    (pc = "done" /\ ExactlyOneSummary) =>
        /\ ~report[1].panic
        /\ LinesOfKind(report[1].lines, "section") = <<L("section", "MEASURED")>>
        /\ LinesOfKind(report[1].lines, "row")
              = <<L("row", [side |-> "", calls |-> OnlySummary.CallCount,
                            input |-> formatInt(OnlySummary.TotalInputTokens),
                            output |-> formatInt(OnlySummary.TotalOutputTokens),
                            cost |-> FormatFloat(OnlySummary.TotalCost, 4)])>>
        /\ LinesOfKind(report[1].lines, "delta") = <<>>
        /\ LinesOfKind(report[1].lines, "bar") = <<>>
        /\ LinesOfKind(report[1].lines, "note")
              = <<L("note", IF headMeasured # Nil
                            THEN [only |-> "HEAD", set |-> "PLARIX_MEASURE_BASE"]
                            ELSE [only |-> "BASE", set |-> "PLARIX_MEASURE_HEAD"])>>

\* C25 witness: a report of the base summary alone, with the note naming
\* PLARIX_MEASURE_HEAD
C25_Witness ==
    /\ pc = "done" /\ baseMeasured # Nil /\ headMeasured = Nil
    /\ baseMeasured[1].CallCount = 2
    /\ Len(LinesOfKind(report[1].lines, "row")) = 1
    /\ LinesOfKind(report[1].lines, "note")[1].v.set = "PLARIX_MEASURE_HEAD"


-----------------------------------------------------------------------------
(* The report written and the PR comment, under SpecMain.                  *)

\* main has a report to write
Rendered == pc \in {"write", "comment", "exited"} /\ report # <<>> /\ ~report[1].panic

\* the positions of effects at which the report is written out
ReportWrites == {i \in 1..Len(effects) : effects[i].op \in {"writeFile", "stdout"}}

\* the positions of effects at which a comment is created or updated
CommentWrites ==
    {i \in 1..Len(effects) : effects[i].op = "request" /\ effects[i].what = "comment"}

\* the positions of effects at which the comments of the PR are listed
CommentLookups ==
    {i \in 1..Len(effects) : effects[i].op = "request" /\ effects[i].what = "comments"}

Warnings ==
    {i \in 1..Len(effects) : effects[i] = Stderr("warn: failed to update PR comment")}

\* the report is written once, to the file when GITHUB_STEP_SUMMARY is set
WrittenOnce ==
    /\ Cardinality(ReportWrites) = 1
    /\ \A i \in ReportWrites :
          effects[i] = IF env.summaryPath THEN WriteFile(report[1].lines)
                       ELSE Stdout(report[1].lines)

\* one create-or-update was attempted after the write: the comments were
\* listed at most once, at most one comment was created or updated, with
\* the report, and exactly one when the listing succeeded; a failure left
\* one warning and the process ended with status 0
UpsertedOnce ==
    /\ Cardinality(CommentLookups) <= 1
    /\ Cardinality(CommentWrites)
          = (IF env.repo = "owner/name" /\ env.comments # "error" THEN 1 ELSE 0)
    /\ \A i \in CommentWrites :
          /\ effects[i].body = report[1].lines
          /\ effects[i].method = (IF env.comments = "none" THEN "POST" ELSE "PATCH")
    /\ \A i \in CommentLookups \cup CommentWrites \cup Warnings :
          \A j \in ReportWrites : j < i
    /\ Cardinality(Warnings)
          = (IF env.repo = "owner/name" /\ env.comments # "error" /\ env.writeOk
             THEN 0 ELSE 1)
    /\ exitCode = 0

\* the comment step keeps what was written and ends the process with
\* status 0
CommentStepKeepsSummary ==
    pc = "comment" =>
        /\ Len(effects') >= Len(effects)
        /\ SubSeq(effects', 1, Len(effects)) = effects
        /\ exitCode' = 0
        /\ report' = report

\* C26: an invocation that reaches rendering writes the report exactly
\* once, to the job summary file when GITHUB_STEP_SUMMARY is set and to
\* stdout otherwise; afterwards one create-or-update of the PR comment is
\* attempted with the same report; a failure of the comment step only adds a
\* warning: the process still ends with status 0 and what was written stays
\* as it was.
C26_WrittenOnceThenComment ==
    /\ []((Rendered /\ pc = "write") => ReportWrites = {})
    /\ []((Rendered /\ pc = "comment") => (WrittenOnce /\ CommentWrites = {}))
    /\ []((Rendered /\ pc = "exited") => (WrittenOnce /\ UpsertedOnce))
    /\ [][CommentStepKeepsSummary]_vars

\* C26 witness: the process has ended with status 0 after writing the
\* report to the job summary file and failing to create the comment
C26_Witness ==
    /\ pc = "exited" /\ Rendered /\ exitCode = 0
    /\ env.summaryPath /\ env.comments = "none" /\ ~env.writeOk
    /\ env.repo = "owner/name"
    /\ Cardinality(Warnings) = 1
    /\ effects[Len(effects) - 2] = Request("GET", "comments")
    /\ effects[Len(effects) - 3] = WriteFile(report[1].lines)


-----------------------------------------------------------------------------
(* SpecUpsert: the invocations of upsertComment on one PR.  prComments is  *)
(* the list of the PR's comments the API holds, oldest first; each         *)
(* invocation lists the comments, then creates or updates.  env.sequential *)
(* tells whether an invocation starts only when the earlier ones have      *)
(* ended (one job at a time) or the invocations interleave.                *)

NumInvocations == 2
Invocations == 1..NumInvocations

\* per_page=100 of the one request findExistingComment makes
commentsPerPage == 100

ghComment(id, body) == [ID |-> id, Body |-> body]

\* a comment somebody else wrote
otherComment(id) == ghComment(id, <<L("text", "lgtm")>>)

\* the report invocation i posts
reportOf(i) == <<L("marker", commentMarker), L("run", i)>>

\* the answer to GET .../comments?per_page=100: the first page
firstPage(cs) == SubSeq(cs, 1, IF Len(cs) < commentsPerPage THEN Len(cs) ELSE commentsPerPage)

markedAt(cs) == {k \in 1..Len(cs) : ContainsMarker(cs[k].Body)}

\* findExistingComment: the ID of the first comment of the page that
\* contains the marker, 0 when there is none
findExistingComment(cs) ==
    IF markedAt(firstPage(cs)) = {} THEN 0
    ELSE firstPage(cs)[Min(markedAt(firstPage(cs)))].ID

\* createComment: POST, the API appends the comment
createComment(cs, body) == Append(cs, ghComment(Len(cs) + 1, body))

\* updateComment: PATCH of the comment with the ID
updateComment(cs, id, body) ==
    [k \in 1..Len(cs) |-> IF cs[k].ID = id THEN ghComment(id, body) ELSE cs[k]]

Ended(i) == pc[i] \in {"done", "failed"}

\* the comments of others the PR starts with
OtherCounts == {0, 1, 99, 100, 101}

InitUpsert ==
    /\ env \in [sequential : BOOLEAN, others : OtherCounts]
    /\ prComments = [k \in 1..env.others |-> otherComment(k)]
    /\ pc = [i \in Invocations |-> "find"]
    /\ existingID = [i \in Invocations |-> 0]
    /\ page = 0 /\ all = <<>> /\ fetched = <<>>
    /\ cfgFile = NoPath /\ effects = <<>> /\ exitCode = -1
    /\ pricing = EmbeddedPricing
    /\ IdleResolver /\ IdleEstimate /\ IdleMeasured /\ IdleReport

upsertIdle ==
    UNCHANGED <<pricing, resolverVars, estimateVars, measuredVars, reportVars, cfgFile,
                env, effects, exitCode, page, all, fetched>>

\* upsertComment: existingID, err := findExistingComment(...)
UpsertFind(i) ==
    /\ pc[i] = "find"
    /\ env.sequential => \A j \in 1..(i - 1) : Ended(j)
    /\ \E ok \in BOOLEAN :
          IF ok
          THEN /\ existingID' = [existingID EXCEPT ![i] = findExistingComment(prComments)]
               /\ pc' = [pc EXCEPT ![i] = IF existingID'[i] = 0 THEN "create" ELSE "update"]
          ELSE /\ pc' = [pc EXCEPT ![i] = "failed"]
               /\ UNCHANGED existingID
    /\ UNCHANGED prComments
    /\ upsertIdle

\* upsertComment: return createComment(...)
UpsertCreate(i) ==
    /\ pc[i] = "create"
    /\ \E ok \in BOOLEAN :
          IF ok
          THEN /\ prComments' = createComment(prComments, reportOf(i))
               /\ pc' = [pc EXCEPT ![i] = "done"]
          ELSE /\ pc' = [pc EXCEPT ![i] = "failed"]
               /\ UNCHANGED prComments
    /\ UNCHANGED existingID
    /\ upsertIdle

\* upsertComment: return updateComment(...)
UpsertUpdate(i) ==
    /\ pc[i] = "update"
    /\ \E ok \in BOOLEAN :
          IF ok
          THEN /\ prComments' = updateComment(prComments, existingID[i], reportOf(i))
               /\ pc' = [pc EXCEPT ![i] = "done"]
          ELSE /\ pc' = [pc EXCEPT ![i] = "failed"]
               /\ UNCHANGED prComments
    /\ UNCHANGED existingID
    /\ upsertIdle

NextUpsert == \E i \in Invocations : UpsertFind(i) \/ UpsertCreate(i) \/ UpsertUpdate(i)

SpecUpsert == InitUpsert /\ [][NextUpsert]_vars

\* the latest invocation that posted its report
LatestDone(i) == pc[i] = "done" /\ \A j \in Invocations : j > i => pc[j] # "done"

\* C27: upsertComment creates a comment only when no comment of the PR
\* contains the marker and updates the marker comment otherwise, so that
\* after any number of invocations run one after the other, whatever the
\* number of other comments, at most one comment contains the marker and
\* it holds the most recent report posted.
C27_OneMarkerComment ==
    env.sequential =>
        /\ \A i \in Invocations :
              pc[i] = "create" => markedAt(prComments) = {}
        /\ Cardinality(markedAt(prComments)) <= 1
        /\ \A i \in Invocations :
              LatestDone(i) =>
                  \E k \in markedAt(prComments) : prComments[k].Body = reportOf(i)

\* C28: when two invocations run concurrently on the same PR, every
\* interleaving of their find and create / update steps leaves at most one
\* comment containing the marker.
C28_OneMarkerCommentConcurrent ==
    ~env.sequential => Cardinality(markedAt(prComments)) <= 1


\* the scale buildMeasuredReport and buildConfiguredEstimateReport pass to
\* bar with the two values
ScalePassed == barScale(BarValue("Before"), BarValue("After"))

\* C29: for every value and scale buildMeasuredReport or
\* buildConfiguredEstimateReport passes to bar, over the summaries
\* loadMeasuredUsage returns and the assumptions loadConfig returns, the
\* filled count lies in 0..22 and the bar has exactly 22 units.
C29_BarWithinWidth ==
    (pc = "done" /\ HasTrendBar) =>
        \A side \in {"Before", "After"} :
            /\ bar(BarValue(side), ScalePassed).filled \in 0..22
            /\ bar(BarValue(side), ScalePassed).empty \in 0..22
            /\ ~bar(BarValue(side), ScalePassed).panic


-----------------------------------------------------------------------------
(* SpecFetch: fetchPRFiles, one page request per step.  env holds the      *)
(* number of files the PR changes and the failure, if any, that the API    *)
(* answers a page request with.                                            *)

\* for page := 1; page <= 10; page++
maxPages == 10

\* per_page=100 and the test len(files) < 100
filesPerPage == 100

\* the files of the PR are numbered; the API answers page p with the next
\* filesPerPage of them
pageFiles(total, p) ==
    [k \in 1..(IF total - (p - 1) * filesPerPage > filesPerPage THEN filesPerPage
               ELSE IF total - (p - 1) * filesPerPage < 0 THEN 0
               ELSE total - (p - 1) * filesPerPage) |-> (p - 1) * filesPerPage + k]

\* the loop goes on after every page
lastPage_never(files) == FALSE

\* if len(files) < 100 { break }
lastPage(files) == Len(files) < filesPerPage

\* client.Do error, io.ReadAll error, status >= 400, json.Unmarshal error
FetchFailures == {"request", "read", "status", "decode"}

NoFailure == [page |-> 0, kind |-> "none"]

FileCounts == {0, 1, 99, 100, 101, 250, 900, 1000, 1001}

FailingPages == {1, 2, 3, 10}

\* return nil, err
fetchError(kind) == [files |-> <<>>, err |-> kind]

\* return all, nil
fetchOk(files) == [files |-> files, err |-> "nil"]

InitFetch ==
    /\ env \in [total : FileCounts,
                failure : {NoFailure} \cup [page : FailingPages, kind : FetchFailures]]
    /\ pc = "request"
    /\ page = 1
    /\ all = <<>>
    /\ fetched = <<>>
    /\ effects = <<>>
    /\ prComments = <<>> /\ existingID = <<>>
    /\ cfgFile = NoPath /\ exitCode = -1
    /\ pricing = EmbeddedPricing
    /\ IdleResolver /\ IdleEstimate /\ IdleMeasured /\ IdleReport

fetchIdle ==
    UNCHANGED <<pricing, resolverVars, estimateVars, measuredVars, reportVars, cfgFile,
                env, exitCode, prComments, existingID>>

\* one turn of the loop: the request for the page, the four failure
\* returns, the append and the break
FetchPage ==
    /\ pc = "request"
    /\ page <= maxPages
    /\ effects' = Append(effects, Request("GET", [files |-> page]))
    /\ IF env.failure.page = page
       THEN /\ fetched' = <<fetchError(env.failure.kind)>>
            /\ pc' = "returned"
            /\ UNCHANGED <<page, all>>
       ELSE /\ all' = all \o pageFiles(env.total, page)
            /\ IF lastPage(pageFiles(env.total, page))
               THEN pc' = "return" /\ UNCHANGED page
               ELSE /\ page' = page + 1
                    /\ pc' = IF page' <= maxPages THEN "request" ELSE "return"
            /\ UNCHANGED fetched
    /\ fetchIdle

\* return all, nil
FetchReturn ==
    /\ pc = "return"
    /\ fetched' = <<fetchOk(all)>>
    /\ pc' = "returned"
    /\ UNCHANGED <<page, all, effects>>
    /\ fetchIdle

NextFetch == FetchPage \/ FetchReturn

SpecFetch == InitFetch /\ [][NextFetch]_vars

\* every request ends: the client has a timeout of 15 seconds
SpecFetchLive == SpecFetch /\ WF_vars(NextFetch)

\* the requests made are those of pages 1, 2, ... in this order, 10 at most
PagesInOrder ==
    /\ Len(effects) <= 10
    /\ \A k \in 1..Len(effects) : effects[k] = Request("GET", [files |-> k])

\* a page is requested only after full pages without failure
NoRequestAfterShortPage ==
    \A k \in 2..Len(effects) :
        /\ Len(pageFiles(env.total, k - 1)) = 100
        /\ env.failure.page # k - 1

\* a request failed
SomeFailure == env.failure.page \in 1..Len(effects)

\* what fetchPRFiles returns: on a failure the error and no file, otherwise
\* the files of the pages requested, the last of which is short or the tenth
ReturnsAllOrNothing ==
    pc = "returned" =>
        /\ Len(fetched) = 1
        /\ SomeFailure => fetched[1] = [files |-> <<>>, err |-> env.failure.kind]
        /\ ~SomeFailure =>
              /\ fetched[1].err = "nil"
              /\ fetched[1].files
                    = [k \in 1..(IF env.total < 1000 THEN env.total ELSE 1000) |-> k]
              /\ \/ Len(pageFiles(env.total, Len(effects))) < 100
                 \/ Len(effects) = 10

\* C30: fetchPRFiles always terminates; it requests the pages in increasing
\* order from page 1, makes at most 10 requests, stops after the first page
\* with fewer than 100 files, and on a request, status (>= 400) or decode
\* failure returns an error and no file, never a partial list.
C30_FetchTerminates ==
    /\ <>[](pc = "returned")
    /\ [](PagesInOrder /\ NoRequestAfterShortPage /\ ReturnsAllOrNothing)

\* C30 witness: the third request failed on its status after two full
\* pages, and fetchPRFiles returned the error without the 200 files it held
C30_Witness ==
    /\ pc = "returned"
    /\ env.total = 250 /\ env.failure = [page |-> 3, kind |-> "status"]
    /\ Len(effects) = 3 /\ Len(all) = 200
    /\ fetched = <<[files |-> <<>>, err |-> "status"]>>

=============================================================================
